---- MODULE Spec2Model ----
(***************************************************************************)
(* Verification model of the slot-simulation engine (stake-engine-math).   *)
(*                                                                         *)
(* Amounts are integers in thousandths of a bet ("mills"): 1.0x = 1000.    *)
(* round(x, 2) is Round2 (half-to-even on the third decimal) and           *)
(* int(round(x * 100, 0)) is Cents.                                        *)
(*                                                                         *)
(* The game state object (self) is the record gs; every method is an       *)
(* operator from a game-state record to a game-state record, named as in   *)
(* the source.  The legacy attribute names still used by some variants     *)
(* (fs, tot_fs, reset_fs_spin, check_fs_condition, update_fs_retrigger_amt,*)
(* gametype, maximum_board_mult) denote the renamed attributes             *)
(* (free_spin_count, total_free_spins, reset_free_spin, ...).              *)
(*                                                                         *)
(* A board is abstracted to what the round logic reads from it: the number *)
(* of scatters, the paytable value of the winning groups found on it, the  *)
(* multiplier symbols, the prize symbols and the upgrade position.         *)
(***************************************************************************)
EXTENDS Integers, Sequences, FiniteSets, TLC

\* ------------------------------------------------------------------ bounds
MaxRounds == 2
MaxAttempts == 2
MaxTumbles == 1
MaxFs == 2
NumSims == 1

\* what one exploration may spend: re-runs of a simulation without retries,
\* or retries without re-runs
Budgets ==
  {[rounds |-> MaxRounds, attempts |-> 1], [rounds |-> 1, attempts |-> MaxAttempts]}

\* ------------------------------------------------------------ configuration
WinCap == 5000000

BaseGameType == "base_game"

FreeGameType == "free_game"

Variants == {"cluster", "scatter", "tower", "expwilds", "template"}

TumbleVariants == {"cluster", "scatter"}

Criteria == {"wincap", "free_game", "0", "base_game"}

\* Distribution.win_criteria is None for "free_game" and "base_game".
has_win_criteria(c) == c \in {"wincap", "0"}

get_win_criteria(c) == IF c = "wincap" THEN WinCap ELSE 0

force_free_game(c) == c \in {"wincap", "free_game"}

\* paytable values found on a board (before multipliers), in mills
Paytable == {0, 125, 2600000}

\* scatter count -> free spins awarded, per game type
free_spin_triggers == [base_game |-> [n \in {1} |-> 1], free_game |-> [n \in {1} |-> 1]]

maximum_board_multiplier == 512

\* prize_config: the paytable value of one prize symbol, in mills
prize_config == [paytable |-> 2500000]

Grid == {1, 2}

Sims == 0 .. (NumSims - 1)

\* ------------------------------------------------------------------ helpers
Min(a, b) == IF a <= b THEN a ELSE b

Max(a, b) == IF a >= b THEN a ELSE b

\* Python round(x, 2) on an amount in mills: round half to even.
Round2(x) ==
  LET q == x \div 10
      r == x % 10
  IN  IF r < 5 THEN q * 10
      ELSE IF r > 5 THEN (q + 1) * 10
      ELSE IF q % 2 = 0 THEN q * 10 ELSE (q + 1) * 10

\* int(round(x * 100, 0)) on an amount in mills: whole cents.
Cents(x) == Round2(x) \div 10

RECURSIVE SumOver(_, _)
SumOver(f, S) ==
  IF S = {} THEN 0
  ELSE LET x == CHOOSE y \in S : TRUE IN f[x] + SumOver(f, S \ {x})

VARIABLES
  variant,          \* which game's GameState class is running
  sim_to_criteria,  \* run_sims argument: criteria of every simulation
  limit,            \* the budget of this exploration
  pc,               \* position in run_spin / run_free_spin
  gs,               \* the GameState object
  attempt,          \* number of the current attempt of the current round
  rounds,           \* completed calls of run_spin
  tumbles,          \* tumbles performed since the last reveal
  tape,             \* per seed: the values the generator has produced so far
  cursor,           \* values consumed since reset_seed
  first_book,       \* per simulation: the Book of its first completed run
  filed,            \* attempts whose force records the last imprint filed
  tb,               \* the Tumble board object exercised on its own
  fb,               \* the Board object of a forced draw exercised on its own
  bk,               \* a Book with an EventFilter exercised on its own
  calc              \* a calculation (its inputs and its result) exercised on its own

vars == <<variant, sim_to_criteria, limit, pc, gs, attempt, rounds, tumbles, tape,
          cursor, first_book, filed, tb, fb, bk, calc>>

\* -------------------------------------------------------------- WinManager
NewWinManager ==
  [spin_win |-> 0, running_bet_win |-> 0, base_game_wins |-> 0,
   free_game_wins |-> 0, total_cumulative_wins |-> 0,
   cumulative_base_wins |-> 0, cumulative_free_wins |-> 0]

update_spin_win(wm, win_amount) ==
  [wm EXCEPT !.spin_win = @ + win_amount,
             !.running_bet_win = @ + win_amount]

set_spin_win_keep_running(wm, win_amount) ==
  [wm EXCEPT !.spin_win = win_amount]

set_spin_win(wm, win_amount) ==
  [wm EXCEPT !.spin_win = win_amount,
             !.running_bet_win = @ + (win_amount - wm.spin_win)]

reset_spin_win(wm) == [wm EXCEPT !.spin_win = 0]

update_game_type_wins(wm, game_type) ==
  IF game_type = BaseGameType
  THEN [wm EXCEPT !.base_game_wins = @ + wm.spin_win]
  ELSE [wm EXCEPT !.free_game_wins = @ + wm.spin_win]

update_end_round_wins(wm) ==
  [wm EXCEPT !.total_cumulative_wins = @ + wm.base_game_wins + wm.free_game_wins,
             !.cumulative_base_wins = @ + wm.base_game_wins,
             !.cumulative_free_wins = @ + wm.free_game_wins]

reset_end_round_wins(wm) ==
  [wm EXCEPT !.base_game_wins = 0, !.free_game_wins = 0,
             !.running_bet_win = 0, !.spin_win = 0]

\* ------------------------------------------------------------- EventFilter
\* EventConstants: member name -> event type
EventConstants ==
  [REVEAL |-> "reveal", WIN |-> "win", SET_FINAL_WIN |-> "setFinalWin",
   SET_WIN |-> "setWin", SET_TOTAL_WIN |-> "setTotalWin", WIN_CAP |-> "winCap",
   UPDATE_FREE_SPINS |-> "updateFreeSpins",
   TRIGGER_FREE_SPINS |-> "triggerFreeSpins",
   RETRIGGER_FREE_SPINS |-> "retriggerFreeSpins",
   END_FREE_SPINS |-> "endFreeSpins", TUMBLE |-> "tumble",
   SET_TUMBLE_WIN |-> "setTumbleWin", UPDATE_TUMBLE_WIN |-> "updateTumbleWin",
   UPDATE_GLOBAL_MULTIPLIER |-> "updateGlobalMultiplier",
   UPDATE_BOARD_MULTIPLIER |-> "updateBoardMultiplier", UPGRADE |-> "upgrade",
   REVEAL_EXPANDING_WILDS |-> "revealExpandingWilds",
   UPDATE_EXPANDING_WILDS |-> "updateExpandingWilds",
   ADD_STICKY_SYMBOLS |-> "addStickySymbols"]

\* the event types of the members a category lists; a listed member the
\* enumeration does not define contributes no type
Values(members) ==
  {EventConstants[m] : m \in members \cap DOMAIN EventConstants}

\* EventFilter.REQUIRED_EVENTS (it lists TUMBLE_BOARD, not TUMBLE)
REQUIRED_EVENTS ==
  Values({"REVEAL", "WIN", "TRIGGER_FREE_SPINS", "RETRIGGER_FREE_SPINS",
          "TUMBLE_BOARD", "UPDATE_GLOBAL_MULTIPLIER", "UPGRADE",
          "REVEAL_EXPANDING_WILDS", "UPDATE_EXPANDING_WILDS",
          "ADD_STICKY_SYMBOLS"})

\* EventFilter.STANDARD_EVENTS
STANDARD_EVENTS ==
  Values({"SET_WIN", "SET_TOTAL_WIN", "WIN_CAP", "END_FREE_SPINS", "SET_FINAL_WIN"})

\* Config defaults of the four filtering options
DefaultFilterConfig ==
  [has_filter |-> TRUE, skip_derived_wins |-> FALSE,
   skip_progress_updates |-> FALSE, verbose_event_level |-> "full",
   skip_implicit_events |-> FALSE]

\* event_data.get("amount", 0): the amount field holds <<>> when the event
\* has no amount
get_amount(event_data) ==
  IF event_data.amount = <<>> THEN 0 ELSE event_data.amount[1]

_is_derived_win_event(event_type) ==
  event_type \in Values({"SET_WIN", "SET_TOTAL_WIN"})

_is_progress_update_event(event_type) ==
  event_type \in Values({"UPDATE_FREE_SPINS", "UPDATE_TUMBLE_WIN", "SET_TUMBLE_WIN"})

_passes_verbosity_filter(config, event_type) ==
  CASE config.verbose_event_level = "minimal" -> event_type \in REQUIRED_EVENTS
    [] config.verbose_event_level = "standard" ->
         event_type \in (REQUIRED_EVENTS \cup STANDARD_EVENTS)
    [] OTHER -> TRUE

_passes_context_filter(config, event_type, event_data) ==
  IF event_type = EventConstants.SET_FINAL_WIN /\ ~event_data.winCap
  THEN ~config.skip_implicit_events
  ELSE ~(/\ config.skip_implicit_events
         /\ get_amount(event_data) = 0
         /\ event_type # EventConstants.SET_TUMBLE_WIN)

\* the filters of should_include_event without the required-events shortcut
passes_filters(config, event_type, event_data) ==
  /\ ~(config.skip_derived_wins /\ _is_derived_win_event(event_type))
  /\ ~(config.skip_progress_updates /\ _is_progress_update_event(event_type))
  /\ _passes_verbosity_filter(config, event_type)
  /\ _passes_context_filter(config, event_type, event_data)

include_unless_filtered(config, event_type, event_data) ==
  passes_filters(config, event_type, event_data)

\* EventFilter.should_include_event, called with the event as event_data
should_include_event(config, event_type, event_data) ==
  \/ event_type \in REQUIRED_EVENTS
  \/ passes_filters(config, event_type, event_data)

\* -------------------------------------------------------------------- Book
NewBook(book_id, criteria) ==
  [id |-> book_id, payout_multiplier |-> 0, events |-> <<>>,
   criteria |-> criteria, base_game_wins |-> 0, free_game_wins |-> 0]

\* An emitter builds the event with index = len(book.events) and hands it to
\* Book.add_event, which appends it when the filter (here the one of the
\* default configuration) includes it.  att is the attempt that emitted it.
add_event(s, type, amount) ==
  IF should_include_event(DefaultFilterConfig, type,
                          [amount |-> <<amount>>, winCap |-> FALSE])
  THEN [s EXCEPT !.book.events =
          Append(@, [index |-> Len(s.book.events), type |-> type,
                     amount |-> amount, att |-> attempt])]
  ELSE s

\* payload of the events as written to the books file (att is not payload)
Payload(events) ==
  [k \in 1 .. Len(events) |->
     [index |-> events[k].index, type |-> events[k].type,
      amount |-> events[k].amount]]

to_json(book) ==
  [id |-> book.id, payoutMultiplier |-> Cents(book.payout_multiplier),
   events |-> Payload(book.events), criteria |-> book.criteria,
   baseGameWins |-> book.base_game_wins, freeGameWins |-> book.free_game_wins]

CountType(events, type) ==
  Cardinality({k \in 1 .. Len(events) : events[k].type = type})

\* ------------------------------------------------------------------ events
\* the reveal event carries the board: here its scatters, prize symbols
\* and multiplier symbols
reveal_event(s) ==
  add_event(s, "reveal", s.board.scat * 100 + s.board.prize * 10 + s.board.mult)

win_event(s) ==
  add_event(s, "win", Cents(Min(s.win_data.totalWin, WinCap)))

update_tumble_win_event(s) ==
  add_event(s, "updateTumbleWin", Cents(Min(s.wm.spin_win, WinCap)))

set_win_event(s) ==
  IF ~s.wincap_triggered
  THEN add_event(s, "setWin", Min(Cents(s.wm.spin_win), Cents(WinCap)))
  ELSE s

set_total_win_event(s) ==
  add_event(s, "setTotalWin", Cents(Min(s.wm.running_bet_win, WinCap)))

win_cap_event(s) ==
  add_event(s, "winCap", Cents(Min(s.wm.running_bet_win, WinCap)))

trigger_free_spins_event(s, base_game_trigger) ==
  add_event(s, IF base_game_trigger THEN "triggerFreeSpins"
               ELSE "retriggerFreeSpins", s.total_free_spins)

update_free_spins_event(s) ==
  add_event(s, "updateFreeSpins", s.free_spin_count)

\* int(min(free_game_wins, win_cap) * 100): truncation towards zero
end_free_spins_event(s) ==
  add_event(s, "endFreeSpins", Min(s.wm.free_game_wins, WinCap) \div 10)

set_final_win_event(s) ==
  add_event(s, "setFinalWin", Cents(Min(s.final_win, WinCap)))

update_global_mult_event(s) ==
  add_event(s, "updateGlobalMultiplier", s.global_multiplier)

tumble_board_event(s) ==
  add_event(s, "tumble", s.board.scat)

update_grid_multiplier_event(s) ==
  add_event(s, "updateBoardMultiplier", SumOver(s.position_multipliers, Grid))

send_multiplier_info_event(s, board_multiplier) ==
  add_event(s, "boardMultiplierInfo", board_multiplier)

upgrade_event(s) ==
  add_event(s, "upgrade", s.board.up)

\* number of prize symbols on the board times their paytable value; the
\* amount is added to spin_win and running_bet_win directly
prize_win_event(s) ==
  IF s.board.prize > 0
  THEN LET total_prize_amount == Cents(prize_config.paytable * s.board.prize)
           t == [s EXCEPT !.wm.spin_win = @ + total_prize_amount * 10,
                          !.wm.running_bet_win = @ + total_prize_amount * 10]
       IN  add_event(t, "win", total_prize_amount)
  ELSE s

\* ------------------------------------------------------- game state: resets
EmptyBoard == [scat |-> 0, pay |-> 0, mult |-> 0, prize |-> 0, up |-> 0]

reset_grid_multipliers(s) ==
  [s EXCEPT !.position_multipliers = [p \in Grid |-> 0]]

reset_book_keep_records(s) ==
  [s EXCEPT !.board = EmptyBoard,
            !.book_id = s.sim + 1,
            !.book = [NewBook(s.sim + 1, s.criteria) EXCEPT !.events = s.book.events],
            !.win_data = [totalWin |-> 0],
            !.wm = reset_end_round_wins(@),
            !.global_multiplier = 1,
            !.final_win = 0,
            !.total_free_spins = 0,
            !.free_spin_count = 0,
            !.wincap_triggered = FALSE,
            !.triggered_free_game = FALSE,
            !.game_type = BaseGameType,
            !.repeat = FALSE]

reset_book(s) ==
  [s EXCEPT !.temp_wins = <<>>,
            !.board = EmptyBoard,
            !.book_id = s.sim + 1,
            !.book = NewBook(s.sim + 1, s.criteria),
            !.win_data = [totalWin |-> 0],
            !.wm = reset_end_round_wins(@),
            !.global_multiplier = 1,
            !.final_win = 0,
            !.total_free_spins = 0,
            !.free_spin_count = 0,
            !.wincap_triggered = FALSE,
            !.triggered_free_game = FALSE,
            !.game_type = BaseGameType,
            !.repeat = FALSE]

reset_seed(s, sim) == [s EXCEPT !.sim = sim]

reset_free_spin_and_cap(s) ==
  [s EXCEPT !.triggered_free_game = TRUE,
            !.free_spin_count = 0,
            !.game_type = FreeGameType,
            !.wm = reset_spin_win(@),
            !.wincap_triggered = FALSE]

Base_reset_free_spin(s) ==
  [s EXCEPT !.triggered_free_game = TRUE,
            !.free_spin_count = 0,
            !.game_type = FreeGameType,
            !.wm = reset_spin_win(@)]

Cluster_reset_free_spin(s) == reset_grid_multipliers(Base_reset_free_spin(s))

Scatter_reset_free_spin(s) ==
  [Base_reset_free_spin(s) EXCEPT !.global_multiplier = 1]

\* sticky_symbols exists from construction on, so it is never re-initialised
Tower_reset_free_spin(s) ==
  [Base_reset_free_spin(s) EXCEPT !.global_multiplier = 1]

reset_free_spin(s) ==
  CASE variant = "cluster" -> Cluster_reset_free_spin(s)
    [] variant = "scatter" -> Scatter_reset_free_spin(s)
    [] variant = "tower" -> Tower_reset_free_spin(s)
    [] OTHER -> Base_reset_free_spin(s)

\* state of the object when __init__ returns and run_sims has installed its
\* WinManager
NewGameState ==
  LET raw == [sim |-> 0, criteria |-> "", book_id |-> 0,
              book |-> NewBook(0, ""), repeat |-> TRUE,
              win_data |-> [totalWin |-> 0], wm |-> NewWinManager,
              library |-> <<>>, recorded_events |-> <<>>, temp_wins |-> <<>>,
              board |-> EmptyBoard, global_multiplier |-> 1, final_win |-> 0,
              total_free_spins |-> 0, free_spin_count |-> 0,
              wincap_triggered |-> FALSE, triggered_free_game |-> FALSE,
              game_type |-> BaseGameType,
              position_multipliers |-> [p \in Grid |-> 0],
              sticky_symbols |-> {}]
  IN  reset_free_spin(reset_book(reset_seed(raw, 0)))

\* ------------------------------------------------------------ force records
record(s, description) ==
  [s EXCEPT !.temp_wins =
     Append(@, [description |-> description, book_id |-> s.book_id,
                att |-> attempt])]

\* the integers of a list, as a set
Elems(seq) == {seq[i] : i \in DOMAIN seq}

file_every_time(recorded, d, b) ==
  IF d \in DOMAIN recorded
  THEN [recorded EXCEPT ![d] = [timesTriggered |-> @.timesTriggered + 1,
                                bookIds |-> Append(@.bookIds, b)]]
  ELSE [x \in DOMAIN recorded \cup {d} |->
          IF x = d THEN [timesTriggered |-> 1, bookIds |-> <<b>>]
          ELSE recorded[x]]

\* the body of imprint_wins' loop for one (description, book_id) pair
file_temp_win(recorded, d, b) ==
  IF d \in DOMAIN recorded /\ b \notin Elems(recorded[d].bookIds)
  THEN [recorded EXCEPT ![d] = [timesTriggered |-> @.timesTriggered + 1,
                                bookIds |-> Append(@.bookIds, b)]]
  ELSE IF d \notin DOMAIN recorded
  THEN [x \in DOMAIN recorded \cup {d} |->
          IF x = d THEN [timesTriggered |-> 1, bookIds |-> <<b>>]
          ELSE recorded[x]]
  ELSE recorded

RECURSIVE FileTempWins(_, _, _)
FileTempWins(recorded, temp_wins, k) ==
  IF k > Len(temp_wins) THEN recorded
  ELSE FileTempWins(file_temp_win(recorded, temp_wins[k].description,
                                  temp_wins[k].book_id),
                    temp_wins, k + 1)

imprint_wins(s) ==
  [s EXCEPT !.recorded_events = FileTempWins(@, s.temp_wins, 1),
            !.temp_wins = <<>>,
            !.library = [k \in DOMAIN @ \cup {s.sim + 1} |->
                           IF k = s.sim + 1 THEN to_json(s.book) ELSE @[k]],
            !.wm = update_end_round_wins(@)]

\* --------------------------------------------------------------- settlement
update_final_win(s) ==
  [s EXCEPT !.final_win = Round2(Min(s.wm.running_bet_win, WinCap)),
            !.book.payout_multiplier = Round2(Min(s.wm.running_bet_win, WinCap)),
            !.book.base_game_wins = Round2(Min(s.wm.base_game_wins, WinCap)),
            !.book.free_game_wins = Round2(Min(s.wm.free_game_wins, WinCap))]

\* the two assertions of update_final_win, evaluated on its result
final_win_asserts(s) ==
  /\ Min(Round2(s.wm.base_game_wins + s.wm.free_game_wins), WinCap)
       = Round2(Min(s.wm.running_bet_win, WinCap))
  /\ Min(Round2(s.book.base_game_wins + s.book.free_game_wins), WinCap)
       = Min(Round2(s.book.payout_multiplier), Round2(WinCap))

\* ------------------------------------------------------------------ win cap
evaluate_wincap(s) ==
  IF s.wm.running_bet_win >= WinCap /\ ~s.wincap_triggered
  THEN win_cap_event([s EXCEPT !.wincap_triggered = TRUE])
  ELSE s

emit_tumble_win_events_no_cap_check(s) ==
  IF s.win_data.totalWin > 0
  THEN update_tumble_win_event(win_event(s))
  ELSE s

emit_tumble_win_events(s) ==
  IF s.win_data.totalWin > 0
  THEN evaluate_wincap(update_tumble_win_event(win_event(s)))
  ELSE s

emit_linewin_events(s) ==
  set_total_win_event(
    IF s.wm.spin_win > 0
    THEN set_win_event(evaluate_wincap(win_event(s)))
    ELSE s)

\* --------------------------------------------------------------- evaluation
WinDescription(s, mult) ==
  [kind |-> s.board.pay, symbol |-> "H", mult |-> mult,
   game_type |-> s.game_type]

\* position multipliers of the winning positions; a winning cluster covers
\* the modelled grid
update_grid_multipliers(s) ==
  IF s.win_data.totalWin > 0
  THEN update_grid_multiplier_event(
         [s EXCEPT !.position_multipliers =
            [p \in Grid |-> IF @[p] = 0 THEN 1
                            ELSE Min(@[p] + 1, maximum_board_multiplier)]])
  ELSE s

\* evaluate_clusters_with_grid, record_cluster_wins, update_spin_win
Cluster_get_clusters_update_wins(s) ==
  LET board_multiplier == Max(SumOver(s.position_multipliers, Grid), 1)
      total_win == s.board.pay * board_multiplier * s.global_multiplier
      s1 == [s EXCEPT !.win_data = [totalWin |-> total_win]]
      s2 == IF total_win > 0
            THEN record(s1, WinDescription(s, s.global_multiplier + board_multiplier))
            ELSE s1
  IN  [s2 EXCEPT !.wm = update_spin_win(@, total_win)]

\* get_scatterpay_wins, record_scatter_wins, update_spin_win and the win
\* events the method emits itself
get_scatterpays_update_wins(s) ==
  LET total_win == s.board.pay * s.global_multiplier
      s1 == [s EXCEPT !.win_data = [totalWin |-> total_win]]
      s2 == IF total_win > 0
            THEN record(s1, WinDescription(s, s.global_multiplier))
            ELSE s1
  IN  emit_tumble_win_events([s2 EXCEPT !.wm = update_spin_win(@, total_win)])

add_sticky_symbol(s, position) ==
  [s EXCEPT !.sticky_symbols = @ \cup {position}]

\* an upgraded symbol is a prize symbol and is placed on the board at once
generate_upgrade_events(s) ==
  IF s.board.up > 0
  THEN LET s1 == upgrade_event(s)
           s2 == [s1 EXCEPT !.board.prize = @ + 1]
       IN  IF s.game_type = FreeGameType
           THEN add_sticky_symbol(s2, s.board.up)
           ELSE s2
  ELSE s

Tower_get_clusters_update_wins(s) ==
  LET total_win == s.board.pay * s.global_multiplier
      s1 == [s EXCEPT !.win_data = [totalWin |-> total_win]]
      s2 == IF total_win > 0
            THEN record(s1, WinDescription(s, s.global_multiplier))
            ELSE s1
      s3 == [s2 EXCEPT !.wm = update_spin_win(@, total_win)]
  IN  IF total_win > 0 THEN generate_upgrade_events(win_event(s3)) ELSE s3

\* Lines.get_lines, record_lines_wins, update_spin_win, emit_linewin_events
evaluate_lines(s) ==
  LET total_win == s.board.pay * s.global_multiplier
      s1 == [s EXCEPT !.win_data = [totalWin |-> total_win]]
      s2 == IF total_win > 0
            THEN record(s1, WinDescription(s, s.global_multiplier))
            ELSE s1
  IN  emit_linewin_events([s2 EXCEPT !.wm = update_spin_win(@, total_win)])

\* ------------------------------------------------------------------ tumbles
Tumble_set_end_tumble_event(s) ==
  set_total_win_event(IF s.wm.spin_win > 0 THEN set_win_event(s) ELSE s)

get_board_multipliers(s) == Max(1, s.board.mult)

Scatter_set_end_tumble_event(s) ==
  LET board_multiplier == get_board_multipliers(s)
      s1 == [s EXCEPT !.wm = set_spin_win(@, s.wm.spin_win * board_multiplier)]
      s2 == IF s1.wm.spin_win > 0 /\ s.board.mult > 0
            THEN update_tumble_win_event(
                   send_multiplier_info_event(s1, board_multiplier))
            ELSE s1
      s3 == IF s.game_type = FreeGameType THEN s2 ELSE s
  IN  set_total_win_event(IF s3.wm.spin_win > 0 THEN set_win_event(s3) ELSE s3)

update_global_mult(s) ==
  update_global_mult_event([s EXCEPT !.global_multiplier = @ + 1])

\* -------------------------------------------------------------- free spins
MinTrigger(game_type) ==
  CHOOSE n \in DOMAIN free_spin_triggers[game_type] :
    \A m \in DOMAIN free_spin_triggers[game_type] : n <= m

count_special_symbols(s) == s.board.scat

check_free_spin_condition(s) ==
  count_special_symbols(s) >= MinTrigger(s.game_type) /\ ~s.repeat

\* an entry check that does not ask the criteria
enter_on_any_trigger(s) == count_special_symbols(s) >= MinTrigger(s.game_type)

check_free_spin_entry(s) ==
  force_free_game(s.criteria) /\ count_special_symbols(s) >= MinTrigger(s.game_type)

Base_update_free_spin_amount(s) ==
  trigger_free_spins_event(
    [s EXCEPT !.total_free_spins =
       free_spin_triggers[s.game_type][count_special_symbols(s)]],
    s.game_type = BaseGameType)

Scatter_update_free_spin_amount(s) ==
  trigger_free_spins_event(
    [s EXCEPT !.total_free_spins = count_special_symbols(s) * 2],
    s.game_type = BaseGameType)

update_free_spin_amount(s) ==
  IF variant \in {"scatter", "tower"}
  THEN Scatter_update_free_spin_amount(s)
  ELSE Base_update_free_spin_amount(s)

update_free_spin_retrigger_amount(s) ==
  trigger_free_spins_event(
    [s EXCEPT !.total_free_spins =
       @ + free_spin_triggers[s.game_type][count_special_symbols(s)]],
    FALSE)

Base_update_free_spin(s) ==
  LET s1 == update_free_spins_event(s)
  IN  [s1 EXCEPT !.free_spin_count = @ + 1,
                 !.wm = reset_spin_win(@),
                 !.win_data = [totalWin |-> 0]]

Cluster_update_free_spin(s) ==
  LET s1 == update_free_spins_event([s EXCEPT !.free_spin_count = @ + 1])
  IN  [s1 EXCEPT !.wm = reset_spin_win(@), !.win_data = [totalWin |-> 0]]

Scatter_update_free_spin(s) ==
  LET s1 == update_free_spins_event([s EXCEPT !.free_spin_count = @ + 1])
      s2 == update_global_mult_event([s1 EXCEPT !.global_multiplier = 1])
  IN  [s2 EXCEPT !.wm = reset_spin_win(@), !.win_data = [totalWin |-> 0]]

Tower_update_free_spin(s) ==
  LET s1 == update_free_spins_event([s EXCEPT !.free_spin_count = @ + 1])
  IN  [s1 EXCEPT !.global_multiplier = 1,
                 !.wm = reset_spin_win(@),
                 !.win_data = [totalWin |-> 0]]

update_free_spin(s) ==
  CASE variant = "cluster" -> Cluster_update_free_spin(s)
    [] variant = "scatter" -> Scatter_update_free_spin(s)
    [] variant = "tower" -> Tower_update_free_spin(s)
    [] OTHER -> Base_update_free_spin(s)

run_free_spin_from_base(s) ==
  update_free_spin_amount(
    record(s, [kind |-> count_special_symbols(s), symbol |-> "scatter",
               mult |-> 0, game_type |-> s.game_type]))

end_free_spin(s) == end_free_spins_event(s)

\* ------------------------------------------------------------- check_repeat
Scatter_check_repeat(s) ==
  IF ~s.repeat
  THEN [s EXCEPT !.repeat =
          has_win_criteria(s.criteria)
            /\ s.final_win # get_win_criteria(s.criteria)]
  ELSE s

Cluster_check_repeat(s) ==
  IF ~s.repeat
  THEN [s EXCEPT !.repeat =
          \/ (has_win_criteria(s.criteria)
                /\ s.final_win # get_win_criteria(s.criteria))
          \/ (force_free_game(s.criteria) /\ ~s.triggered_free_game)
          \/ (s.wm.running_bet_win = 0 /\ s.criteria # "0")]
  ELSE s

\* the template's run_spin never calls check_repeat
check_repeat(s) ==
  CASE variant \in {"cluster", "expwilds"} -> Cluster_check_repeat(s)
    [] variant \in {"scatter", "tower"} -> Scatter_check_repeat(s)
    [] OTHER -> s

\* -------------------------------------------------------------------- draws
\* One value of the seeded generator decides one board: the paytable value
\* of the groups on it, whether a scatter lands, the multiplier symbols, the
\* prize symbols and the position an upgrade picks.
Rolls(v) ==
  CASE v = "cluster" ->
         {[pay |-> p, sc |-> c, mult |-> 0, pz |-> 0, up |-> 0] :
            p \in Paytable, c \in {0, 1}}
    [] v = "scatter" ->
         {[pay |-> p, sc |-> c, mult |-> m, pz |-> 0, up |-> 0] :
            p \in Paytable, c \in {0, 1}, m \in {0, 2}}
    [] v = "tower" ->
         {r \in [pay : Paytable \ {125}, sc : {0, 1}, mult : {0}, pz : {0, 1}, up : {0, 1}] :
            /\ r.up > 0 => r.pay > 0
            /\ r.pz > 0 => r.up = 0}
    [] v = "expwilds" ->
         {[pay |-> p, sc |-> c, mult |-> 0, pz |-> 0, up |-> 0] :
            p \in Paytable, c \in {0, 1}}
    [] OTHER -> {}

\* forced base game: force_special_board with the drawn scatter count;
\* unforced base game: redrawn until no trigger; otherwise a plain draw
create_board(s, r) ==
  [s EXCEPT !.board =
     [scat |-> IF s.game_type = BaseGameType
               THEN IF force_free_game(s.criteria)
                    THEN MinTrigger(BaseGameType) ELSE 0
               ELSE r.sc,
      pay |-> r.pay, mult |-> r.mult, prize |-> r.pz, up |-> r.up]]

Board_draw_board(s, r) == reveal_event(create_board(s, r))

replace_board_with_stickys(s) ==
  [s EXCEPT !.board.prize = @ + Cardinality(s.sticky_symbols)]

Tower_draw_board(s, r) ==
  LET s1 == create_board(s, r)
  IN  reveal_event(IF s.game_type = FreeGameType
                   THEN replace_board_with_stickys(s1) ELSE s1)

draw_board(s, r) ==
  IF variant = "tower" THEN Tower_draw_board(s, r) ELSE Board_draw_board(s, r)

\* tumble_board and tumble_board_event: the winning symbols leave, the
\* refill brings the next groups, possibly a scatter and multiplier symbols
tumble_game_board(s, r) ==
  tumble_board_event(
    [s EXCEPT !.board =
       [scat |-> IF @.scat = 0 THEN r.sc ELSE @.scat,
        pay |-> r.pay, mult |-> @.mult + r.mult, prize |-> @.prize,
        up |-> r.up]])

\* Values of the generator that differ only in a part the draw does not
\* read are identified (that part is 0), and a scatter that would make the
\* free-spin loop longer than MaxFs spins is not drawn.
Relevant(s, r, tumble) ==
  /\ (s.game_type = BaseGameType /\ ~tumble) => r.sc = 0
  /\ (tumble /\ s.board.scat > 0) => r.sc = 0
  /\ (s.game_type = FreeGameType /\ variant = "expwilds") => r.sc = 0
  /\ (s.game_type = FreeGameType /\ r.sc > 0)
       => s.total_free_spins + free_spin_triggers[FreeGameType][r.sc] <= MaxFs

\* the generator's next value: the recorded one when this seed has produced
\* it before, a new one otherwise.  The stream is recorded only when the
\* budget allows a simulation to be run again.
Roll(r) ==
  /\ r \in Rolls(variant)
  /\ IF limit.rounds > 1
     THEN /\ IF cursor < Len(tape[gs.sim])
             THEN r = tape[gs.sim][cursor + 1] /\ UNCHANGED tape
             ELSE tape' = [tape EXCEPT ![gs.sim] = Append(@, r)]
          /\ cursor' = cursor + 1
     ELSE UNCHANGED <<tape, cursor>>

\* ------------------------------------------------------------------ actions
\* a board object no operation has been called on
NoBoard == [pc |-> "off"]

Init ==
  /\ variant \in Variants
  /\ sim_to_criteria \in [Sims -> Criteria]
  /\ limit \in Budgets
  /\ pc = "idle"
  /\ gs = NewGameState
  /\ attempt = 0
  /\ rounds = 0
  /\ tumbles = 0
  /\ tape = [i \in Sims |-> <<>>]
  /\ cursor = 0
  /\ first_book = <<>>
  /\ filed = {}
  /\ tb = NoBoard
  /\ fb = NoBoard
  /\ bk = NoBoard
  /\ calc = NoBoard

\* run_sims loop body up to the head of run_spin's repeat loop
RunSpin(i) ==
  /\ pc = "idle"
  /\ rounds < limit.rounds
  /\ gs' = [reset_seed(gs, i) EXCEPT !.criteria = sim_to_criteria[i],
                                      !.repeat = TRUE]
  /\ cursor' = 0
  /\ attempt' = 1
  /\ pc' = "attempt"
  /\ UNCHANGED <<bk, calc, tb, fb, variant, sim_to_criteria, limit, rounds, tumbles, tape, first_book, filed>>

BeginAttempt(r) ==
  /\ pc = "attempt"
  /\ variant # "template"
  /\ Roll(r)
  /\ Relevant(reset_book(gs), r, FALSE)
  /\ gs' = draw_board(reset_book(gs), r)
  /\ tumbles' = 0
  /\ pc' = "eval"
  /\ UNCHANGED <<bk, calc, tb, fb, variant, sim_to_criteria, limit, attempt, rounds, first_book, filed>>

TemplateAttempt ==
  /\ pc = "attempt"
  /\ variant = "template"
  /\ gs' = reset_book(gs)
  /\ pc' = "settle"
  /\ UNCHANGED <<bk, calc, tb, fb, variant, sim_to_criteria, limit, attempt, rounds, tumbles, tape,
                 cursor, first_book, filed>>

evaluate(s) ==
  CASE variant = "cluster" ->
         LET s1 == emit_tumble_win_events(Cluster_get_clusters_update_wins(s))
         IN  IF s.game_type = FreeGameType THEN update_grid_multipliers(s1) ELSE s1
    [] variant = "scatter" ->
         LET s1 == get_scatterpays_update_wins(s)
         IN  IF tumbles = 0 THEN emit_tumble_win_events(s1) ELSE s1
    [] variant = "tower" -> Tower_get_clusters_update_wins(s)
    [] OTHER -> evaluate_lines(s)

Evaluate ==
  /\ pc = "eval"
  /\ gs' = evaluate(gs)
  /\ pc' = "loop"
  /\ UNCHANGED <<bk, calc, tb, fb, variant, sim_to_criteria, limit, attempt, rounds, tumbles, tape,
                 cursor, first_book, filed>>

TumbleGuard(s) ==
  variant \in TumbleVariants /\ s.win_data.totalWin > 0 /\ ~s.wincap_triggered

Tumble(r) ==
  /\ pc = "loop"
  /\ TumbleGuard(gs)
  /\ tumbles < MaxTumbles
  /\ Roll(r)
  /\ Relevant(gs, r, TRUE)
  /\ gs' = IF variant = "scatter" /\ gs.game_type = FreeGameType
           THEN update_global_mult(tumble_game_board(gs, r))
           ELSE tumble_game_board(gs, r)
  /\ tumbles' = tumbles + 1
  /\ pc' = "eval"
  /\ UNCHANGED <<bk, calc, tb, fb, variant, sim_to_criteria, limit, attempt, rounds, first_book, filed>>

end_of_spin(s) ==
  LET s1 == CASE variant = "cluster" -> Tumble_set_end_tumble_event(s)
              [] variant = "scatter" -> Scatter_set_end_tumble_event(s)
              [] variant = "tower" -> prize_win_event(s)
              [] OTHER -> s
  IN  [s1 EXCEPT !.wm = update_game_type_wins(@, s.game_type)]

EndBaseSpin ==
  /\ pc = "loop"
  /\ ~TumbleGuard(gs)
  /\ gs.game_type = BaseGameType
  /\ LET s1 == end_of_spin(gs)
     IN  IF check_free_spin_condition(s1)
         THEN IF check_free_spin_entry(s1)
              THEN /\ gs' = reset_free_spin(run_free_spin_from_base(s1))
                   /\ pc' = "fsloop"
              ELSE /\ gs' = [s1 EXCEPT !.repeat = TRUE]
                   /\ pc' = "settle"
         ELSE /\ gs' = s1
              /\ pc' = "settle"
  /\ UNCHANGED <<bk, calc, tb, fb, variant, sim_to_criteria, limit, attempt, rounds, tumbles, tape,
                 cursor, first_book, filed>>

EndFreeSpin ==
  /\ pc = "loop"
  /\ ~TumbleGuard(gs)
  /\ gs.game_type = FreeGameType
  /\ LET s1 == end_of_spin(gs)
     IN  gs' = IF variant # "expwilds" /\ check_free_spin_condition(s1)
               THEN update_free_spin_retrigger_amount(s1)
               ELSE s1
  /\ pc' = "fsloop"
  /\ UNCHANGED <<bk, calc, tb, fb, variant, sim_to_criteria, limit, attempt, rounds, tumbles, tape,
                 cursor, first_book, filed>>

\* a loop test that lets the counter pass the total
spin_once_more(s) == s.free_spin_count <= s.total_free_spins

FreeSpinLoopGuard(s) ==
  /\ s.free_spin_count < s.total_free_spins
  /\ variant = "expwilds" => ~s.wincap_triggered

FreeSpin(r) ==
  /\ pc = "fsloop"
  /\ FreeSpinLoopGuard(gs)
  /\ Roll(r)
  /\ Relevant(gs, r, FALSE)
  /\ gs' = IF variant = "cluster"
           THEN update_grid_multiplier_event(draw_board(update_free_spin(gs), r))
           ELSE draw_board(update_free_spin(gs), r)
  /\ tumbles' = 0
  /\ pc' = "eval"
  /\ UNCHANGED <<bk, calc, tb, fb, variant, sim_to_criteria, limit, attempt, rounds, first_book, filed>>

EndFreeSpins ==
  /\ pc = "fsloop"
  /\ ~FreeSpinLoopGuard(gs)
  /\ gs' = end_free_spin(gs)
  /\ pc' = "settle"
  /\ UNCHANGED <<bk, calc, tb, fb, variant, sim_to_criteria, limit, attempt, rounds, tumbles, tape,
                 cursor, first_book, filed>>

\* evaluate_final_win; a failed assertion ends the run
Settle ==
  /\ pc = "settle"
  /\ LET s1 == update_final_win(gs)
     IN  IF final_win_asserts(s1)
         THEN gs' = set_final_win_event(s1) /\ pc' = "check"
         ELSE gs' = s1 /\ pc' = "abort"
  /\ UNCHANGED <<bk, calc, tb, fb, variant, sim_to_criteria, limit, attempt, rounds, tumbles, tape,
                 cursor, first_book, filed>>

CheckRepeat ==
  /\ pc = "check"
  /\ gs' = check_repeat(gs)
  /\ IF gs'.repeat
     THEN attempt < limit.attempts /\ attempt' = attempt + 1 /\ pc' = "attempt"
     ELSE attempt' = attempt /\ pc' = "imprint"
  /\ UNCHANGED <<bk, calc, tb, fb, variant, sim_to_criteria, limit, rounds, tumbles, tape, cursor,
                 first_book, filed>>

Imprint ==
  /\ pc = "imprint"
  /\ gs' = imprint_wins(gs)
  /\ filed' = {gs.temp_wins[k].att : k \in 1 .. Len(gs.temp_wins)}
  /\ first_book' = IF gs.sim \in DOMAIN first_book THEN first_book
                   ELSE [i \in DOMAIN first_book \cup {gs.sim} |->
                           IF i = gs.sim THEN to_json(gs.book) ELSE first_book[i]]
  /\ rounds' = rounds + 1
  /\ pc' = "idle"
  /\ UNCHANGED <<bk, calc, tb, fb, variant, sim_to_criteria, limit, attempt, tumbles, tape, cursor>>

Next ==
  \/ \E i \in Sims : RunSpin(i)
  \/ \E r \in Rolls(variant) : BeginAttempt(r)
  \/ TemplateAttempt
  \/ Evaluate
  \/ \E r \in Rolls(variant) : Tumble(r)
  \/ EndBaseSpin
  \/ EndFreeSpin
  \/ \E r \in Rolls(variant) : FreeSpin(r)
  \/ EndFreeSpins
  \/ Settle
  \/ CheckRepeat
  \/ Imprint

Spec == Init /\ [][Next]_vars

\* ------------------------------------------------------------ Board, Tumble
\* Bounds of the board explorations.
MaxTumbleRounds == 2
MaxForceTries == 2

\* config.num_rows, one entry per reel; config.num_reels is its length
num_rows == <<2, 2>>

num_reels == Len(num_rows)

\* config.reels[reelstrip_id]: reel 1 carries two stacked scatters
reelstrip == << <<"S", "S", "A", "B">>, <<"A", "S", "B">> >>

\* config.special_symbols: special type -> the symbol names of that type
special_symbols == [scatter |-> {"S"}, wild |-> {"W"}]

Reels == 1 .. num_reels

Cells == {c \in Reels \X (1 .. 2) : c[2] <= num_rows[c[1]]}

\* Python's % on a positive modulus (the result is never negative)
PyMod(a, b) == ((a % b) + b) % b

\* self.reelstrip[reel][p % len(self.reelstrip[reel])], p counted from 0
StripAt(reel, p) == reelstrip[reel][PyMod(p, Len(reelstrip[reel])) + 1]

\* Board.create_symbol: a fresh Symbol; explode is set only by win evaluation
create_symbol(name) == [name |-> name, explode |-> FALSE]

\* Symbol.check_attribute("explode")
check_attribute(sym) == sym.explode

\* the anticipation scan of both board builders: going through the board reel
\* by reel and row by row, the index (from 0) of the reel after the first
\* scatter that brings the registered scatters to the trigger, or -1
RECURSIVE ScanForScatter(_, _, _, _, _)
ScanForScatter(board, anticipation_trigger, reel, row, found) ==
  IF reel > Len(board) THEN -1
  ELSE IF row > Len(board[reel])
       THEN ScanForScatter(board, anticipation_trigger, reel + 1, 1, found)
       ELSE IF board[reel][row].name \in special_symbols.scatter
            THEN IF found + 1 >= anticipation_trigger
                 THEN reel
                 ELSE ScanForScatter(board, anticipation_trigger, reel, row + 1, found + 1)
            ELSE ScanForScatter(board, anticipation_trigger, reel, row + 1, found)

first_scatter_reel(board, anticipation_trigger) ==
  ScanForScatter(board, anticipation_trigger, 1, 1, 0)

\* an array that counts down from the reel after the scatter
count_down(first, n) ==
  [r \in 1 .. n |-> IF r - 1 >= first THEN n - (r - 1) ELSE 0]

\* for reel in range(first_scatter_reel, num_reels): anticipation[reel] = count;
\* count += 1  (reels indexed from 0 in the code, from 1 here)
count_up(first, n) ==
  [r \in 1 .. n |-> IF r - 1 >= first THEN (r - 1) - first + 1 ELSE 0]

\* the anticipation array of create_board_reelstrips
create_anticipation(board, anticipation_trigger) ==
  LET first == first_scatter_reel(board, anticipation_trigger)
  IN  IF first > -1 /\ first # Len(board)
      THEN count_up(first, Len(board))
      ELSE [r \in 1 .. Len(board) |-> 0]

\* the check of create_board_reelstrips that raises BoardGenerationError
invalid_anticipation(anticipation) ==
  \E r \in 2 .. Len(anticipation) : anticipation[r - 1] > anticipation[r]

\* the anticipation array of force_board_from_reelstrips
force_anticipation(board, anticipation_trigger) ==
  LET first == first_scatter_reel(board, anticipation_trigger)
  IN  IF first > -1 /\ first <= Len(board)
      THEN count_up(first, Len(board))
      ELSE [r \in 1 .. Len(board) |-> 0]

\* every stop position of every reel
StopPositions == [Reels -> 0 .. 3] \cap
                 {f \in [Reels -> 0 .. 3] : \A r \in Reels : f[r] < Len(reelstrip[r])}

\* Board.create_board_reelstrips: the board, the stop positions and, with
\* padding, the symbol above each reel
create_board_reelstrips(positions, include_padding) ==
  [pc |-> "drawn",
   include_padding |-> include_padding,
   reel_positions |-> positions,
   board |-> [reel \in Reels |->
                [row \in 1 .. num_rows[reel] |->
                   create_symbol(StripAt(reel, positions[reel] + row - 1))]],
   static_board |-> <<>>,
   top_symbols |-> IF include_padding
                   THEN [reel \in Reels |->
                           create_symbol(StripAt(reel, positions[reel] - 1))]
                   ELSE <<>>,
   new_symbols_from_tumble |-> [reel \in Reels |-> <<>>],
   tumbles |-> 0]

\* a tumble that removes nothing and adds nothing (stands in for the count)
no_exploding_symbols(reel_syms) == 0

\* exploding_symbols in tumble_board: cells of the reel flagged explode
exploding_symbols(reel_syms) ==
  Cardinality({row \in DOMAIN reel_syms : check_attribute(reel_syms[row])})

inserted_bottom_up(t, reel, k) ==
  [j \in 1 .. k |-> create_symbol(StripAt(reel, t.reel_positions[reel] - j))]

\* the symbols tumble_board pushes on the top of a reel, topmost first: the
\* i-th insertion (i from 0) takes the padding symbol when i = 0 and padding
\* is on, else a fresh symbol from the strip above the moving stop position
Inserted(t, reel, k) ==
  [j \in 1 .. k |->
     LET i == k - j IN
     IF i = 0 /\ t.include_padding
     THEN t.top_symbols[reel]
     ELSE create_symbol(StripAt(reel, t.reel_positions[reel] - (i + 1)))]

RECURSIVE TumbleFrom(_, _)
\* the loop over reels of Tumble.tumble_board; copy(self.board) is shallow,
\* so the insertions land in self.board's reel lists, and only the final
\* assignment gives self.board the filtered reels
TumbleFrom(t, reel) ==
  IF reel > num_reels
  THEN [t EXCEPT !.board = t.static_board, !.static_board = <<>>,
                 !.pc = "tumbled", !.tumbles = @ + 1]
  ELSE LET k == exploding_symbols(t.static_board[reel])
           ins == Inserted(t, reel, k)
           grown == ins \o t.static_board[reel]
           copy_reel == SelectSeq(grown, LAMBDA sym : ~check_attribute(sym))
           pos == PyMod(t.reel_positions[reel] - k, Len(reelstrip[reel]))
           fresh == IF t.include_padding /\ k > 0
                    THEN SubSeq(ins, 1, k - 1) ELSE ins
           moved == [t EXCEPT !.board[reel] = grown,
                              !.reel_positions[reel] = pos]
       IN IF Len(copy_reel) # num_rows[reel]
          THEN [moved EXCEPT !.pc = "error"]
          ELSE TumbleFrom(
                 [moved EXCEPT
                    !.static_board[reel] = copy_reel,
                    !.top_symbols =
                       IF t.include_padding /\ k > 0
                       THEN [@ EXCEPT ![reel] = create_symbol(StripAt(reel, pos - 1))]
                       ELSE @,
                    !.new_symbols_from_tumble[reel] =
                       IF t.include_padding /\ k > 0
                       THEN <<create_symbol(StripAt(reel, pos - 1))>> \o fresh
                       ELSE fresh],
                 reel + 1)

\* Tumble.tumble_board
tumble_board(t) ==
  TumbleFrom([t EXCEPT !.static_board = t.board,
                       !.new_symbols_from_tumble = [reel \in Reels |-> <<>>]], 1)

\* the state of the round machine while a board is exercised on its own
RoundUnused ==
  /\ variant = "template"
  /\ sim_to_criteria = [i \in Sims |-> "0"]
  /\ limit = [rounds |-> 0, attempts |-> 0]
  /\ pc = "off"
  /\ gs = NewGameState
  /\ attempt = 0
  /\ rounds = 0
  /\ tumbles = 0
  /\ tape = [i \in Sims |-> <<>>]
  /\ cursor = 0
  /\ first_book = <<>>
  /\ filed = {}

roundvars == <<variant, sim_to_criteria, limit, pc, gs, attempt, rounds, tumbles,
               tape, cursor, first_book, filed>>

InitTumble ==
  /\ RoundUnused
  /\ fb = NoBoard
  /\ bk = NoBoard
  /\ calc = NoBoard
  /\ \E positions \in StopPositions, include_padding \in BOOLEAN :
       tb = create_board_reelstrips(positions, include_padding)

\* win evaluation flags the cells of the winning symbols (any set of cells,
\* the empty one included)
MarkExplode(cells) ==
  /\ tb.pc \in {"drawn", "tumbled"}
  /\ tb.tumbles < MaxTumbleRounds
  /\ tb' = [tb EXCEPT
              !.pc = "marked",
              !.board = [reel \in Reels |->
                           [row \in 1 .. num_rows[reel] |->
                              [tb.board[reel][row] EXCEPT
                                 !.explode = (<<reel, row>> \in cells)]]]]
  /\ UNCHANGED <<roundvars, fb, bk, calc>>

TumbleBoard ==
  /\ tb.pc = "marked"
  /\ tb' = tumble_board(tb)
  /\ UNCHANGED <<roundvars, fb, bk, calc>>

NextTumble ==
  \/ \E cells \in SUBSET Cells : MarkExplode(cells)
  \/ TumbleBoard

SpecTumble == InitTumble /\ [][NextTumble]_vars

\* ------------------------------------------------------------ forced draws
\* str.upper() on the names in use
Upper(name) == IF name = "a" THEN "A" ELSE name

\* what a caller may ask force_special_board for: a special type or a name
ForceCriteria == {"scatter", "S", "A", "a"}

ForceCounts == 0 .. (num_reels + 1)

\* Board.get_syms_on_reel: per reel, the stops (from 0) showing the target
get_syms_on_reel(target_symbol) ==
  [r \in Reels |->
     {st \in 0 .. (Len(reelstrip[r]) - 1) :
        \/ /\ target_symbol \in DOMAIN special_symbols
           /\ reelstrip[r][st + 1] \in special_symbols[target_symbol]
        \/ reelstrip[r][st + 1] = target_symbol}]

\* Board.force_board_from_reelstrips: forced reels stop so that the forced
\* stop shows in a random row, the other reels stop anywhere; the special
\* symbols are registered by name while the board is built
force_board_from_reelstrips(b, force_stop_positions, offs, rnd) ==
  LET reel_positions ==
        [r \in Reels |->
           IF r \in DOMAIN force_stop_positions
           THEN force_stop_positions[r] - offs[r]
           ELSE rnd[r]]
      board ==
        [reel \in Reels |->
           [row \in 1 .. num_rows[reel] |->
              create_symbol(StripAt(reel, reel_positions[reel] + row - 1))]]
  IN [b EXCEPT
        !.board = board,
        !.reel_positions = reel_positions,
        !.special_syms_on_board =
           [t \in DOMAIN special_symbols |->
              {c \in Cells : board[c[1]][c[2]].name \in special_symbols[t]}]]

\* the count the caller asked for, whatever the board holds
requested_count(b, special_sym_criteria) == b.num_force_syms

\* Board.count_special_symbols on the registered special symbols
Board_count_special_symbols(b, special_sym_criteria) ==
  Cardinality(b.special_syms_on_board[special_sym_criteria])

\* Board.count_symbols_on_board: names compared in upper case
count_symbols_on_board(b, symbol_name) ==
  Cardinality({c \in Cells : Upper(b.board[c[1]][c[2]].name) = Upper(symbol_name)})

\* the reels _force_special_board can pick (sym_prob > 0)
PossibleReels(force_criteria) ==
  {r \in Reels : get_syms_on_reel(force_criteria)[r] # {}}

\* the test that ends the loop of force_special_board
ForceDone(b) ==
  \/ /\ b.force_criteria \in DOMAIN special_symbols
     /\ Board_count_special_symbols(b, b.force_criteria) = b.num_force_syms
  \/ /\ b.force_criteria \notin DOMAIN special_symbols
     /\ count_symbols_on_board(b, b.force_criteria) = b.num_force_syms

InitForce ==
  /\ RoundUnused
  /\ tb = NoBoard
  /\ bk = NoBoard
  /\ calc = NoBoard
  /\ fb = [pc |-> "idle", force_criteria |-> "scatter", num_force_syms |-> 0,
           board |-> <<>>, reel_positions |-> <<>>,
           special_syms_on_board |-> [t \in DOMAIN special_symbols |-> {}],
           tries |-> 0]

\* a call of force_special_board(force_criteria, num_force_syms)
ForceSpecialBoard(force_criteria, num_force_syms) ==
  /\ fb.pc \in {"idle", "returned"}
  /\ fb' = [fb EXCEPT !.pc = "loop", !.force_criteria = force_criteria,
                      !.num_force_syms = num_force_syms, !.tries = 0]
  /\ UNCHANGED <<roundvars, tb, bk, calc>>

\* one pass of the while True loop: _force_special_board picks
\* num_force_syms distinct reels that carry the target and a stop on each
\* (random.choices on an empty population raises when too few reels carry
\* it), builds the board, and the loop ends when the count matches
ForceAttempt(forced, stops, offs, rnd) ==
  /\ fb.pc = "loop"
  /\ fb.tries < MaxForceTries
  /\ IF Cardinality(PossibleReels(fb.force_criteria)) < fb.num_force_syms
     THEN /\ fb' = [fb EXCEPT !.pc = "error"]
     ELSE /\ forced \subseteq PossibleReels(fb.force_criteria)
          /\ Cardinality(forced) = fb.num_force_syms
          /\ \A r \in forced : stops[r] \in get_syms_on_reel(fb.force_criteria)[r]
          /\ \A r \in Reels : offs[r] < num_rows[r] /\ rnd[r] < Len(reelstrip[r])
          /\ \A r \in Reels \ forced : stops[r] = 0 /\ offs[r] = 0
          /\ \A r \in forced : rnd[r] = 0
          /\ LET b == force_board_from_reelstrips(
                        fb, [r \in forced |-> stops[r]], offs, rnd)
             IN fb' = [b EXCEPT !.tries = @ + 1,
                                !.pc = IF ForceDone(b) THEN "returned" ELSE "loop"]
  /\ UNCHANGED <<roundvars, tb, bk, calc>>

NextForce ==
  \/ \E force_criteria \in ForceCriteria, num_force_syms \in ForceCounts :
       ForceSpecialBoard(force_criteria, num_force_syms)
  \/ \E forced \in SUBSET Reels, stops \in [Reels -> 0 .. 3],
        offs \in [Reels -> 0 .. 1], rnd \in [Reels -> 0 .. 3] :
       ForceAttempt(forced, stops, offs, rnd)

SpecForce == InitForce /\ [][NextForce]_vars

\* ------------------------------------------------- Book with an EventFilter
MaxEvents == 2

EventTypes == {EventConstants[m] : m \in DOMAIN EventConstants}

\* the filtering options a Config can carry; has_filter = FALSE is a Book
\* constructed without an EventFilter
FilterConfigs ==
  {DefaultFilterConfig} \cup
  {[has_filter |-> TRUE, skip_derived_wins |-> d, skip_progress_updates |-> p,
    verbose_event_level |-> v, skip_implicit_events |-> i] :
     d \in BOOLEAN, p \in BOOLEAN,
     v \in {"full", "standard", "minimal"}, i \in BOOLEAN} \cup
  {[DefaultFilterConfig EXCEPT !.has_filter = FALSE]}

\* the event types whose emitters put an "amount" into the event
AmountTypes ==
  Values({"SET_WIN", "SET_TOTAL_WIN", "SET_FINAL_WIN", "WIN_CAP",
          "UPDATE_TUMBLE_WIN", "SET_TUMBLE_WIN", "UPDATE_FREE_SPINS"})

\* payloads: no amount, a zero amount, a positive amount.  Reveal and win
\* events are tried with all three.
Amounts(type) ==
  CASE type \in Values({"REVEAL", "WIN"}) -> {<<>>, <<0>>, <<100>>}
    [] type \in AmountTypes -> {<<0>>, <<100>>}
    [] OTHER -> {<<>>}

first_index(b) == 0

\* "index": len(game_state.book.events)
next_index(b) == Len(b.events)

\* Book.add_event
Book_add_event(b, event) ==
  IF b.config.has_filter
     /\ ~should_include_event(b.config, event.type, event)
  THEN b
  ELSE [b EXCEPT !.events = Append(@, event)]

InitEvents ==
  /\ RoundUnused
  /\ tb = NoBoard
  /\ fb = NoBoard
  /\ calc = NoBoard
  /\ bk \in {[pc |-> "book", config |-> c, events |-> <<>>,
              last |-> [type |-> "", amount |-> <<>>, stored |-> FALSE],
              dropped |-> FALSE] :
               c \in FilterConfigs}

\* an emitter (reveal_event, win_event, set_win_event, ...) builds one event
\* and passes it to Book.add_event; last and dropped remember what became of
\* the emitted events
EmitEvent(type, amount, winCap) ==
  /\ bk.pc = "book"
  /\ Len(bk.events) < MaxEvents
  /\ LET event == [index |-> next_index(bk), type |-> type,
                   amount |-> amount, winCap |-> winCap]
         after == Book_add_event(bk, event)
         stored == Len(after.events) > Len(bk.events)
     IN  bk' = [after EXCEPT !.last = [type |-> type, amount |-> amount,
                                       stored |-> stored],
                             !.dropped = @ \/ ~stored]
  /\ UNCHANGED <<roundvars, tb, fb, calc>>

NextEvents ==
  \E type \in EventTypes, winCap \in BOOLEAN :
    \E amount \in Amounts(type) :
    /\ winCap => type = EventConstants.SET_FINAL_WIN
    /\ EmitEvent(type, amount, winCap)

SpecEvents == InitEvents /\ [][NextEvents]_vars

\* ------------------------------------------------ simulation index ranges
MaxThreads == 2
MaxBatching == 2
MaxNumSims == 8

\* round(n / d, 0) of Python: to the nearest integer, ties to the even one
RoundDiv(n, d) ==
  LET q == n \div d
      r == n % d
  IN  IF 2 * r < d THEN q
      ELSE IF 2 * r > d THEN q + 1
      ELSE IF q % 2 = 0 THEN q ELSE q + 1

\* run_multi_process_sims: num_repeats and sims_per_thread
num_repeats(num_sims, threads, batching_size) ==
  Max(RoundDiv(num_sims, threads * batching_size), 1)

sims_per_thread(num_sims, threads, batching_size) ==
  num_sims \div (threads * num_repeats(num_sims, threads, batching_size))

start_sim_without_stride(thread_index, num_sims, total_threads, repeat_count) ==
  thread_index * num_sims + num_sims * repeat_count

\* run_sims: the range of this thread in this repeat
start_sim(thread_index, num_sims, total_threads, repeat_count) ==
  thread_index * num_sims + (total_threads * num_sims) * repeat_count

end_sim(thread_index, num_sims, total_threads, repeat_count) ==
  (thread_index + 1) * num_sims + (total_threads * num_sims) * repeat_count

InitSims ==
  /\ RoundUnused
  /\ tb = NoBoard
  /\ fb = NoBoard
  /\ bk = NoBoard
  /\ \E threads \in 1..MaxThreads, batching_size \in 1..MaxBatching,
        n \in 1..MaxNumSims :
       calc = [pc |-> "sims", threads |-> threads,
               num_repeats |-> num_repeats(n, threads, batching_size),
               sims_per_thread |-> sims_per_thread(n, threads, batching_size),
               repeat |-> 0, started |-> 0, procs |-> <<>>,
               given |-> {}, ran |-> {}, twice |-> FALSE]

\* run_multi_process_sims starts run_sims for the next thread of the batch
\* (or calls it directly when there is one thread); run_sims computes the
\* range it will walk
StartProcess ==
  /\ calc.pc = "sims"
  /\ calc.started < calc.threads
  /\ LET thread == calc.started
         first == start_sim(thread, calc.sims_per_thread, calc.threads, calc.repeat)
         last == end_sim(thread, calc.sims_per_thread, calc.threads, calc.repeat)
     IN  calc' = [calc EXCEPT
                    !.started = @ + 1,
                    !.procs = Append(@, [sim |-> first, end_sim |-> last]),
                    !.given = @ \cup {[thread_index |-> thread,
                                       repeat_index |-> calc.repeat,
                                       start_sim |-> first, end_sim |-> last]}]
  /\ UNCHANGED <<roundvars, tb, fb, bk>>

\* one iteration of "for sim in range(start_sim, end_sim)" in a worker
RunSim(p) ==
  /\ calc.pc = "sims"
  /\ p \in DOMAIN calc.procs
  /\ calc.procs[p].sim < calc.procs[p].end_sim
  /\ calc' = [calc EXCEPT !.procs[p].sim = @ + 1,
                          !.ran = @ \cup {calc.procs[p].sim},
                          !.twice = @ \/ calc.procs[p].sim \in calc.ran]
  /\ UNCHANGED <<roundvars, tb, fb, bk>>

\* every process of the batch has been joined; the next repeat begins
JoinBatch ==
  /\ calc.pc = "sims"
  /\ calc.started = calc.threads
  /\ \A p \in DOMAIN calc.procs : calc.procs[p].sim = calc.procs[p].end_sim
  /\ calc' = [calc EXCEPT !.repeat = @ + 1, !.started = 0, !.procs = <<>>,
                          !.pc = IF calc.repeat + 1 = calc.num_repeats
                                 THEN "done" ELSE "sims"]
  /\ UNCHANGED <<roundvars, tb, fb, bk>>

NextSims ==
  \/ StartProcess
  \/ \E p \in 1..MaxThreads : RunSim(p)
  \/ JoinBatch

SpecSims == InitSims /\ [][NextSims]_vars

\* ------------------------------------------------- payout evaluators: Ways, Lines
\* config.paytable: (kind, symbol name) -> payout, in mills of the bet
paytable ==
  (<<2, "W">> :> 500) @@ (<<3, "W">> :> 2000) @@
  (<<2, "H1">> :> 100) @@ (<<3, "H1">> :> 500) @@ (<<3, "H2">> :> 200)

\* config.paylines: line index -> row of every reel
paylines == << <<1, 1, 1>>, <<2, 2, 2>>, <<1, 2, 1>> >>

\* the board of the evaluators: three reels of two rows
PayRows == <<2, 2, 2>>

\* symbols as the factory makes them; multiplier 0 stands for a symbol
\* without the attribute
PaySymbols ==
  {[name |-> "H1", multiplier |-> 0], [name |-> "H2", multiplier |-> 0],
   [name |-> "W", multiplier |-> 0], [name |-> "W", multiplier |-> 2]}

PayBoards == [DOMAIN PayRows -> [1..2 -> PaySymbols]]

\* sym.check_attribute(wild_key) / sym.name in config.special_symbols[wild_key]
is_wild(sym) == sym.name \in special_symbols.wild

\* the multiplier a cell adds: its attribute when present and above 1
cell_multiplier(sym) == IF sym.multiplier > 1 THEN sym.multiplier ELSE 0

\* the global multiplier apply_mult uses when its caller passes none
default_global_multiplier == 1

\* apply_mult as its callers use it (board, strategy, win_amount, positions):
\* "global" multiplies by the global multiplier, "symbol" by the sum of the
\* multipliers on the positions, at least 1
apply_mult(board, strategy, win_amount, positions) ==
  LET m == IF strategy = "global" THEN default_global_multiplier
           ELSE Max(SumOver([pos \in positions |->
                               cell_multiplier(board[pos[1]][pos[2]])], positions), 1)
  IN  [win |-> win_amount * m, multiplier |-> m]

\* ---- Ways
\* potential_wins[symbol][reel] and wilds[reel], as sets of rows
potential_wins(board, symbol, reel) ==
  {row \in DOMAIN board[reel] : board[reel][row].name = symbol}

wilds(board, reel) == {row \in DOMAIN board[reel] : is_wild(board[reel][row])}

multiplier_enhance(board, symbol, reel) ==
  LET m == [row \in DOMAIN board[reel] |-> cell_multiplier(board[reel][row])]
  IN  SumOver(m, potential_wins(board, symbol, reel)) + SumOver(m, wilds(board, reel))

RECURSIVE FirstSeen(_, _)
\* the keys of potential_wins in insertion order: names of reel 0, top down
FirstSeen(reel_syms, row) ==
  IF row > Len(reel_syms) THEN <<>>
  ELSE (IF \E r \in 1..(row - 1) : reel_syms[r].name = reel_syms[row].name
        THEN <<>> ELSE <<reel_syms[row].name>>) \o FirstSeen(reel_syms, row + 1)

RECURSIVE CountWays(_, _, _, _)
\* the loop over reels for one symbol: kind, ways, cumulative_symbol_multiplier
CountWays(board, symbol, reel, acc) ==
  IF reel > Len(board) THEN acc
  ELSE IF potential_wins(board, symbol, reel) = {} /\ wilds(board, reel) = {}
  THEN acc
  ELSE LET e == multiplier_enhance(board, symbol, reel)
       IN  CountWays(board, symbol, reel + 1,
             [kind |-> acc.kind + 1,
              ways |-> acc.ways * (Cardinality(potential_wins(board, symbol, reel))
                                   + Cardinality(wilds(board, reel)) + e),
              symbolMult |-> acc.symbolMult + e])

\* the win record of one symbol, <<>> when the paytable has no entry
ways_win(board, symbol) ==
  LET c == CountWays(board, symbol, 1, [kind |-> 0, ways |-> 1, symbolMult |-> 0])
  IN  IF <<c.kind, symbol>> \in DOMAIN paytable
      THEN LET win == paytable[<<c.kind, symbol>>] * c.ways
               applied == apply_mult(board, "global", win, {})
           IN  <<[symbol |-> symbol, kind |-> c.kind, win |-> applied.win,
                  meta |-> [ways |-> c.ways, globalMultiplier |-> applied.multiplier,
                            winWithoutMult |-> win, symbolMult |-> c.symbolMult]]>>
      ELSE <<>>

RECURSIVE WaysWins(_, _, _)
WaysWins(board, symbols, i) ==
  IF i > Len(symbols) THEN <<>>
  ELSE ways_win(board, symbols[i]) \o WaysWins(board, symbols, i + 1)

\* Ways.get_ways_data(config, board): totalWin accumulates win, the amount
\* before apply_mult
get_ways_data(board) ==
  LET wins == WaysWins(board, FirstSeen(board[1], 1), 1)
  IN  [totalWin |-> SumOver([i \in DOMAIN wins |-> wins[i].meta.winWithoutMult],
                            DOMAIN wins),
       wins |-> wins]

\* ---- Lines
RECURSIVE WalkLine(_, _, _, _)
\* the loop over reels 1.. of one payline; first_non_wild is <<>> for None
WalkLine(board, line, reel, st) ==
  IF reel > Len(line) THEN st
  ELSE LET sym == board[reel][line[reel]]
       IN  IF st.finished_wild_win
           THEN IF sym.name = st.first_non_wild[1] \/ is_wild(sym)
                THEN WalkLine(board, line, reel + 1, [st EXCEPT !.matches = @ + 1])
                ELSE st
           ELSE IF is_wild(sym)
                THEN WalkLine(board, line, reel + 1,
                              [st EXCEPT !.wild_matches = @ + 1])
                ELSE WalkLine(board, line, reel + 1,
                              [st EXCEPT !.first_non_wild = <<sym.name>>,
                                         !.matches = @ + 1,
                                         !.finished_wild_win = TRUE])

\* the counters of a payline after the loop
line_matches(board, line) ==
  LET first_sym == board[1][line[1]]
      finished_wild_win == ~is_wild(first_sym)
  IN  WalkLine(board, line, 2,
        [finished_wild_win |-> finished_wild_win,
         first_non_wild |-> IF finished_wild_win THEN <<first_sym.name>> ELSE <<>>,
         wild_matches |-> IF finished_wild_win THEN 0 ELSE 1,
         matches |-> IF finished_wild_win THEN 1 ELSE 0])

prefer_wild_run(wild_win, base_win) == wild_win >= base_win

\* "if wild_win > base_win": the pure-wild run is recorded
wild_run_pays(wild_win, base_win) == wild_win > base_win

\* the win record of one payline, <<>> when it pays nothing
line_win(board, line_index, wild_sym, multiplier_method, global_multiplier) ==
  LET line == paylines[line_index]
      st == line_matches(board, line)
      wild_win == IF <<st.wild_matches, wild_sym>> \in DOMAIN paytable
                  THEN paytable[<<st.wild_matches, wild_sym>>] ELSE 0
      run == st.wild_matches + st.matches
      base_win == IF st.first_non_wild # <<>>
                     /\ <<run, st.first_non_wild[1]>> \in DOMAIN paytable
                  THEN paytable[<<run, st.first_non_wild[1]>>] ELSE 0
      kind == IF wild_run_pays(wild_win, base_win) THEN st.wild_matches ELSE run
      positions == {<<reel, line[reel]>> : reel \in 1..kind}
      paid == IF wild_run_pays(wild_win, base_win) THEN wild_win ELSE base_win
      applied == apply_mult(board, multiplier_method, paid, positions)
  IN  IF base_win > 0 \/ wild_win > 0
      THEN <<[symbol |-> IF wild_run_pays(wild_win, base_win)
                         THEN board[1][line[1]].name ELSE st.first_non_wild[1],
              kind |-> kind, win |-> applied.win, positions |-> positions,
              meta |-> [lineIndex |-> line_index, multiplier |-> applied.multiplier,
                        winWithoutMult |-> paid,
                        globalMultiplier |-> global_multiplier,
                        lineMultiplier |-> applied.multiplier \div global_multiplier]]>>
      ELSE <<>>

RECURSIVE LineWins(_, _, _, _)
LineWins(board, line_index, multiplier_method, global_multiplier) ==
  IF line_index > Len(paylines) THEN <<>>
  ELSE line_win(board, line_index, "W", multiplier_method, global_multiplier)
       \o LineWins(board, line_index + 1, multiplier_method, global_multiplier)

\* Lines.get_lines(board, config, multiplier_method, global_multiplier)
get_lines(board, multiplier_method, global_multiplier) ==
  LET wins == LineWins(board, 1, multiplier_method, global_multiplier)
  IN  [totalWin |-> SumOver([i \in DOMAIN wins |-> wins[i].win], DOMAIN wins),
       wins |-> wins]

\* ---- Scatter
\* the cells of a board in the order of the evaluators' double loop
ScanCells(board) ==
  [i \in 1..(Len(board) * Len(board[1])) |->
     <<((i - 1) \div Len(board[1])) + 1, ((i - 1) % Len(board[1])) + 1>>]

no_wild_positions(board) == <<>>

\* wild_positions
wild_positions(board) ==
  SelectSeq(ScanCells(board), LAMBDA pos : is_wild(board[pos[1]][pos[2]]))

\* symbols_on_board[sym] before the wilds are added
symbol_positions(board, sym) ==
  SelectSeq(ScanCells(board),
            LAMBDA pos : board[pos[1]][pos[2]].name = sym
                         /\ ~is_wild(board[pos[1]][pos[2]]))

RECURSIVE ScatterKeys(_, _)
\* the keys of symbols_on_board in insertion order
ScatterKeys(board, i) ==
  LET cells == ScanCells(board)
      sym == board[cells[i][1]][cells[i][2]]
  IN  IF i > Len(cells) THEN <<>>
      ELSE (IF is_wild(sym)
               \/ \E j \in 1..(i - 1) : board[cells[j][1]][cells[j][2]].name = sym.name
            THEN <<>> ELSE <<sym.name>>) \o ScatterKeys(board, i + 1)

RECURSIVE CentralFrom(_, _, _, _, _, _)
\* Scatter.get_central_scatter_position; reels and rows count from 0 and
\* distances are kept times 4
CentralFrom(rows_for_overlay, winning_positions, max_reels, max_rows, i, best) ==
  IF i > Len(winning_positions) THEN <<best.reel, best.row>>
  ELSE LET reel == winning_positions[i][1] - 1
           row == winning_positions[i][2] - 1
           dist == (2 * reel - max_reels) * (2 * reel - max_reels)
                   + (2 * row - max_rows) * (2 * row - max_rows)
       IN  CentralFrom(rows_for_overlay, winning_positions, max_reels, max_rows, i + 1,
             IF dist < best.closest
                /\ \A k \in DOMAIN rows_for_overlay : rows_for_overlay[k] # row
                /\ Len(rows_for_overlay) < max_reels
             THEN [closest |-> dist, reel |-> reel, row |-> row]
             ELSE best)

get_central_scatter_position(rows_for_overlay, winning_positions, max_reels, max_rows) ==
  CentralFrom(rows_for_overlay, winning_positions, max_reels, max_rows, 1,
              [closest |-> 400, reel |-> 0, row |-> 0])

RECURSIVE ScatterWins(_, _, _, _, _)
\* the loop "for sym in symbols_on_board" of get_scatterpay_wins
ScatterWins(board, keys, i, global_multiplier, acc) ==
  IF i > Len(keys) THEN acc
  ELSE LET sym == keys[i]
           positions == symbol_positions(board, sym) \o wild_positions(board)
           win_size == Len(positions)
       IN  IF <<win_size, sym>> \in DOMAIN paytable
           THEN LET symbol_mult ==
                      Max(SumOver([k \in DOMAIN positions |->
                                     board[positions[k][1]][positions[k][2]].multiplier],
                                  DOMAIN positions), 1)
                    overlay == get_central_scatter_position(
                                 acc.rows_for_overlay, positions,
                                 Len(board), Len(board[1]))
                    win == paytable[<<win_size, sym>>] * global_multiplier * symbol_mult
                IN  ScatterWins(board, keys, i + 1, global_multiplier,
                      [rows_for_overlay |-> Append(acc.rows_for_overlay, overlay[2]),
                       exploded |-> acc.exploded \cup {positions[k] : k \in DOMAIN positions},
                       totalWin |-> acc.totalWin + win,
                       wins |-> Append(acc.wins,
                         [symbol |-> sym, win |-> win, positions |-> positions,
                          meta |-> [globalMult |-> global_multiplier,
                                    clusterMult |-> symbol_mult,
                                    winWithoutMult |-> paytable[<<win_size, sym>>],
                                    overlay |-> [reel |-> overlay[1],
                                                 row |-> overlay[2]]]])])
           ELSE ScatterWins(board, keys, i + 1, global_multiplier, acc)

\* Scatter.get_scatterpay_wins; exploded are the cells it flags explode
get_scatterpay_wins(board, global_multiplier) ==
  ScatterWins(board, ScatterKeys(board, 1), 1, global_multiplier,
              [rows_for_overlay |-> <<>>, exploded |-> {}, totalWin |-> 0,
               wins |-> <<>>])

\* ---------------------------------------------------------------------------
\* Cluster evaluator (src/calculations/cluster.py)

\* a cell joins a neighbour list once, when it is first seen by the fill
see_once(t, cell) ==
  IF \E i \in 1..Len(t.local_checked) : t.local_checked[i] = cell
  THEN t
  ELSE [neighbours |-> Append(t.neighbours, cell),
        local_checked |-> Append(t.local_checked, cell)]

\* a fill that looks at no neighbour
no_neighbours(board, reel, row, local_checked) ==
  [neighbours |-> <<>>, local_checked |-> local_checked]

\* the unchecked orthogonal neighbours of a cell, each marked as checked
get_neighbours(board, reel, row, local_checked) ==
  LET t0 == [neighbours |-> <<>>, local_checked |-> local_checked]
      t1 == IF reel > 1 THEN see_once(t0, <<reel - 1, row>>) ELSE t0
      t2 == IF reel < Len(board) THEN see_once(t1, <<reel + 1, row>>) ELSE t1
      t3 == IF row > 1 THEN see_once(t2, <<reel, row - 1>>) ELSE t2
      t4 == IF row < Len(board[reel]) THEN see_once(t3, <<reel, row + 1>>) ELSE t3
  IN  t4

\* the cell is wild or carries the cluster's symbol
in_cluster(board, reel, row, og_symbol) ==
  is_wild(board[reel][row]) \/ og_symbol = board[reel][row].name

RECURSIVE check_all_neighbours(_, _, _, _, _)
RECURSIVE VisitNeighbours(_, _, _, _, _)

\* the loop over the neighbours of one cell: a matching neighbour joins the
\* cluster and is searched in turn before the next neighbour is looked at
VisitNeighbours(board, st, neighbours, i, og_symbol) ==
  IF i > Len(neighbours) THEN st
  ELSE LET c == neighbours[i]
       IN  IF in_cluster(board, c[1], c[2], og_symbol)
           THEN VisitNeighbours(board,
                  check_all_neighbours(board,
                    [st EXCEPT !.potential_cluster = Append(@, c),
                               !.already_checked = Append(@, c)],
                    c[1], c[2], og_symbol),
                  neighbours, i + 1, og_symbol)
           ELSE VisitNeighbours(board, st, neighbours, i + 1, og_symbol)

\* depth-first fill from one cell; st carries the three lists the code
\* extends in place
check_all_neighbours(board, st, reel, row, og_symbol) ==
  LET n == get_neighbours(board, reel, row, st.local_checked)
  IN  VisitNeighbours(board, [st EXCEPT !.local_checked = n.local_checked],
                      n.neighbours, 1, og_symbol)

\* clusters[symbol].append(cluster) on a defaultdict(list)
AppendCluster(clusters, symbol, cluster) ==
  IF symbol \in DOMAIN clusters
  THEN [clusters EXCEPT ![symbol] = Append(@, cluster)]
  ELSE clusters @@ (symbol :> <<cluster>>)

\* the board scan of get_clusters: every unchecked non-wild cell seeds a fill
RECURSIVE ScanClusters(_, _, _, _)
ScanClusters(board, i, already_checked, clusters) ==
  IF i > Len(ScanCells(board)) THEN clusters
  ELSE LET c == ScanCells(board)[i]
       IN  IF /\ ~ \E k \in 1..Len(already_checked) : already_checked[k] = c
              /\ ~ is_wild(board[c[1]][c[2]])
           THEN LET symbol == board[c[1]][c[2]].name
                    st == check_all_neighbours(board,
                            [potential_cluster |-> <<c>>,
                             already_checked |-> Append(already_checked, c),
                             local_checked |-> <<c>>],
                            c[1], c[2], symbol)
                IN  ScanClusters(board, i + 1, st.already_checked,
                                 AppendCluster(clusters, symbol, st.potential_cluster))
           ELSE ScanClusters(board, i + 1, already_checked, clusters)

get_clusters(board) == ScanClusters(board, 1, <<>>, <<>>)

InitPay ==
  /\ RoundUnused
  /\ tb = NoBoard
  /\ fb = NoBoard
  /\ bk = NoBoard
  /\ \E board \in PayBoards, global_multiplier \in {1, 2},
        multiplier_method \in {"symbol", "global"} :
       calc = [pc |-> "board", board |-> board,
               global_multiplier |-> global_multiplier,
               multiplier_method |-> multiplier_method,
               win_data |-> [totalWin |-> 0, wins |-> <<>>],
               exploded |-> {}, clusters |-> <<>>]

\* a ways game evaluates the board (evaluate_ways_board)
EvaluateWays ==
  /\ calc.pc = "board"
  /\ calc' = [calc EXCEPT !.pc = "ways", !.win_data = get_ways_data(calc.board)]
  /\ UNCHANGED <<roundvars, tb, fb, bk>>

\* a lines game evaluates the board
EvaluateLines ==
  /\ calc.pc = "board"
  /\ calc' = [calc EXCEPT !.pc = "lines",
                          !.win_data = get_lines(calc.board, calc.multiplier_method,
                                                 calc.global_multiplier)]
  /\ UNCHANGED <<roundvars, tb, fb, bk>>

\* a scatter-pay game evaluates the board
EvaluateScatter ==
  /\ calc.pc = "board"
  /\ LET r == get_scatterpay_wins(calc.board, calc.global_multiplier)
     IN  calc' = [calc EXCEPT !.pc = "scatter",
                              !.win_data = [totalWin |-> r.totalWin, wins |-> r.wins],
                              !.exploded = r.exploded]
  /\ UNCHANGED <<roundvars, tb, fb, bk>>

\* a cluster-pay game finds the clusters of the board
FindClusters ==
  /\ calc.pc = "board"
  /\ calc' = [calc EXCEPT !.pc = "cluster", !.clusters = get_clusters(calc.board)]
  /\ UNCHANGED <<roundvars, tb, fb, bk>>

NextPay == EvaluateWays \/ EvaluateLines \/ EvaluateScatter \/ FindClusters

SpecPay == InitPay /\ [][NextPay]_vars

\* ---------------------------------------------------------------------------
\* Weighted draws (src/calculations/statistics.py)

\* weights are whole numbers up to MaxWeight; a roll is a multiple of
\* 1/RollScale, so that rolls fall both on and between the cumulative weights
MaxWeight == 2
RollScale == 2

\* the keys of the distribution, in iteration order
DrawValues == <<"A", "B", "C">>

\* distributions: items() of a dict, as a sequence of [value, weight]
Distributions ==
  {[i \in DOMAIN DrawValues |-> [value |-> DrawValues[i], weight |-> w[i]]] :
     w \in [DOMAIN DrawValues -> 0..MaxWeight]}

RECURSIVE SumWeights(_, _)
SumWeights(distribution, n) ==
  IF n = 0 THEN 0 ELSE SumWeights(distribution, n - 1) + distribution[n].weight

\* sum(distribution.values())
totalWeight(distribution) == SumWeights(distribution, Len(distribution))

\* the rolls random.uniform(0, totalWeight) can return, in units of 1/RollScale
RollsOf(distribution) == 0..(RollScale * totalWeight(distribution))

\* the comparison of the loop: cumulative >= roll
reached(cumulative, roll) == RollScale * cumulative >= roll

\* the loop over distribution.items(); falling out of it raises
RECURSIVE DrawFrom(_, _, _, _)
DrawFrom(distribution, roll, i, cumulative) ==
  IF i > Len(distribution) THEN "error drawing item from distribution"
  ELSE IF reached(cumulative + distribution[i].weight, roll)
       THEN distribution[i].value
       ELSE DrawFrom(distribution, roll, i + 1, cumulative + distribution[i].weight)

get_random_outcome(distribution, roll) == DrawFrom(distribution, roll, 1, 0)

InitDraw ==
  /\ RoundUnused
  /\ tb = NoBoard
  /\ fb = NoBoard
  /\ bk = NoBoard
  /\ \E distribution \in Distributions :
       calc = [pc |-> "dist", distribution |-> distribution, roll |-> 0,
               outcome |-> "none"]

\* roll = random.uniform(0, totalWeight)
RollUniform ==
  /\ calc.pc = "dist"
  /\ \E roll \in RollsOf(calc.distribution) :
       calc' = [calc EXCEPT !.pc = "rolled", !.roll = roll]
  /\ UNCHANGED <<roundvars, tb, fb, bk>>

\* the loop returns a value
ReturnOutcome ==
  /\ calc.pc = "rolled"
  /\ calc' = [calc EXCEPT !.pc = "drawn",
                          !.outcome = get_random_outcome(calc.distribution, calc.roll)]
  /\ UNCHANGED <<roundvars, tb, fb, bk>>

NextDraw == RollUniform \/ ReturnOutcome

SpecDraw == InitDraw /\ [][NextDraw]_vars

\* ---------------------------------------------------------------------------
\* Anticipation of generated boards (src/calculations/board.py)

\* the boards of the anticipation scan: four reels of two rows
AnticipationRows == <<2, 2, 2, 2>>

AnticipationBoards ==
  [DOMAIN AnticipationRows -> [1 .. 2 -> {create_symbol(n) : n \in {"S", "A", "W"}}]]

\* the largest anticipation trigger of a game type
MaxTrigger == 3

InitAnticipation ==
  /\ RoundUnused
  /\ tb = NoBoard
  /\ fb = NoBoard
  /\ bk = NoBoard
  /\ \E board \in AnticipationBoards, anticipation_trigger \in 0 .. MaxTrigger :
       calc = [pc |-> "board", board |-> board,
               anticipation_trigger |-> anticipation_trigger,
               anticipation |-> [r \in DOMAIN AnticipationRows |-> 0]]

\* create_board_reelstrips has read the board off the strips: it fills the
\* array, validates it and stores it
CreateBoardAnticipation ==
  /\ calc.pc = "board"
  /\ LET anticipation == create_anticipation(calc.board, calc.anticipation_trigger)
     IN  IF invalid_anticipation(anticipation)
         THEN calc' = [calc EXCEPT !.pc = "BoardGenerationError"]
         ELSE calc' = [calc EXCEPT !.pc = "created", !.anticipation = anticipation]
  /\ UNCHANGED <<roundvars, tb, fb, bk>>

\* force_board_from_reelstrips has read the board off the strips: it fills
\* the array and stores it
ForceBoardAnticipation ==
  /\ calc.pc = "board"
  /\ calc' = [calc EXCEPT !.pc = "forced",
                          !.anticipation =
                             force_anticipation(calc.board, calc.anticipation_trigger)]
  /\ UNCHANGED <<roundvars, tb, fb, bk>>

NextAnticipation == CreateBoardAnticipation \/ ForceBoardAnticipation

SpecAnticipation == InitAnticipation /\ [][NextAnticipation]_vars

\* ---------------------------------------------------------------------------
\* Super spin: the respin loop of template_expanding_wilds

\* reset_super_spin: self.total_free_spins = 3
super_spin_respins == 3

\* the board of the super spin: two reels of two rows
SuperRows == <<2, 2>>

\* conditions["prize_values"]: the values a prize symbol can get, in mills
prize_values == {1000, 5000}

\* create_symbol for a cell of the super-spin strips: "P" with a prize value
\* drawn by assign_prize_value, or a blank without the attribute (prize 0)
SuperSymbols ==
  {[name |-> "X", prize |-> 0]} \cup {[name |-> "P", prize |-> v] : v \in prize_values}

SuperBoards == [DOMAIN SuperRows -> [1 .. 2 -> SuperSymbols]]

SuperCriteria == {"0", "wincap", "basegame"}

\* Symbol.check_attribute("prize")
has_prize(sym) == sym.prize # 0

\* len(self.special_syms_on_board["prize"]) after create_board_reelstrips
prizes_on_board(board) ==
  Cardinality({c \in (DOMAIN board) \X (1 .. 2) : has_prize(board[c[1]][c[2]])})

\* GameState.reset_super_spin
reset_super_spin(s) ==
  [s EXCEPT !.total_free_spins = super_spin_respins,
            !.free_spin_count = 0,
            !.sticky_symbols = <<>>,
            !.existing_sticky_symbols = <<>>]

\* the boards the redraw loops of run_super_spin let through: criteria "0"
\* redraws while a prize shows, a wincap round below 95% of the cap redraws
\* its first respin after a reset until a prize shows
accepted_draw(s, board) ==
  IF s.criteria = "0" THEN prizes_on_board(board) = 0
  ELSE IF /\ s.criteria = "wincap"
          /\ 100 * s.running_bet_win < 95 * WinCap
          /\ s.free_spin_count <= 1
       THEN prizes_on_board(board) > 0
       ELSE TRUE

RECURSIVE PlaceStickys(_, _, _)
PlaceStickys(board, sticky_symbols, i) ==
  IF i > Len(sticky_symbols) THEN board
  ELSE LET sym == sticky_symbols[i]
       IN  PlaceStickys([board EXCEPT ![sym.reel][sym.row] =
                                         [name |-> "P", prize |-> sym.prize]],
                        sticky_symbols, i + 1)

\* GameState.replace_board_with_stickys of the expanding-wilds game
place_stickys(s) ==
  [s EXCEPT !.board = PlaceStickys(s.board, s.sticky_symbols, 1)]

\* a check that takes every prize on the board for a new one
is_prize(s, c) == has_prize(s.board[c[1]][c[2]])

\* the test of check_for_new_prize: a prize on a cell not yet sticky
is_new_prize(s, c) ==
  /\ has_prize(s.board[c[1]][c[2]])
  /\ ~ \E k \in 1 .. Len(s.existing_sticky_symbols) : s.existing_sticky_symbols[k] = c

\* GameState.check_for_new_prize: the new sticky symbols in scan order, and
\* the state with both lists extended
check_for_new_prize(s) ==
  LET cells == SelectSeq(ScanCells(s.board), LAMBDA c : is_new_prize(s, c))
      new_sticky_symbols ==
        [i \in 1 .. Len(cells) |->
           [reel |-> cells[i][1], row |-> cells[i][2],
            prize |-> s.board[cells[i][1]][cells[i][2]].prize]]
  IN  [new_sticky_symbols |-> new_sticky_symbols,
       state |-> [s EXCEPT !.sticky_symbols = @ \o new_sticky_symbols,
                           !.existing_sticky_symbols = @ \o cells]]

\* GameState.get_final_board_prize: the sum of the prize values on the board
get_final_board_prize(board) ==
  SumOver([c \in (DOMAIN board) \X (1 .. 2) |-> board[c[1]][c[2]].prize],
          (DOMAIN board) \X (1 .. 2))

InitSuper ==
  /\ RoundUnused
  /\ tb = NoBoard
  /\ fb = NoBoard
  /\ bk = NoBoard
  /\ \E criteria \in SuperCriteria :
       calc = [pc |-> "run_super_spin", criteria |-> criteria,
               total_free_spins |-> 0, free_spin_count |-> 0,
               sticky_symbols |-> <<>>, existing_sticky_symbols |-> <<>>,
               board |-> [reel \in DOMAIN SuperRows |->
                            [row \in 1 .. 2 |-> [name |-> "X", prize |-> 0]]],
               running_bet_win |-> 0, spin_win |-> 0,
               respins |-> 0, quiet |-> 0]

\* run_super_spin up to its loop
ResetSuperSpin ==
  /\ calc.pc = "run_super_spin"
  /\ calc' = [reset_super_spin(calc) EXCEPT !.pc = "loop"]
  /\ UNCHANGED <<roundvars, tb, fb, bk>>

\* one pass of the while loop: update_free_spin, the draw, the stickys placed
\* on it, and the counter reset when a new prize landed
Respin(board) ==
  /\ calc.pc = "loop"
  /\ calc.free_spin_count < calc.total_free_spins
  /\ LET s1 == [calc EXCEPT !.free_spin_count = @ + 1, !.spin_win = 0]
     IN  /\ accepted_draw(s1, board)
         /\ LET s2 == place_stickys([s1 EXCEPT !.board = board])
                r == check_for_new_prize(s2)
                found == Len(r.new_sticky_symbols) > 0
            IN  calc' = [r.state EXCEPT
                           !.free_spin_count = IF found THEN 0 ELSE @,
                           !.respins = @ + 1,
                           !.quiet = IF found THEN 0 ELSE @ + 1]
  /\ UNCHANGED <<roundvars, tb, fb, bk>>

\* the loop condition fails: the prizes on the board are paid
EndSuperSpin ==
  /\ calc.pc = "loop"
  /\ ~ (calc.free_spin_count < calc.total_free_spins)
  /\ LET totalWin == get_final_board_prize(calc.board)
     IN  calc' = [calc EXCEPT !.pc = "paid",
                              !.spin_win = @ + totalWin,
                              !.running_bet_win = @ + totalWin]
  /\ UNCHANGED <<roundvars, tb, fb, bk>>

NextSuper ==
  \/ ResetSuperSpin
  \/ \E board \in SuperBoards : Respin(board)
  \/ EndSuperSpin

SpecSuper == InitSuper /\ [][NextSuper]_vars

\* ------------------------------------------------------------------ claims
Settled == pc \in {"check", "imprint", "abort"}

\* C1: at the settlement of every round, in every variant, the committed
\* base-game and free-game wins and the running round win agree under the
\* cap: round(min(base + free, cap), 2) = round(min(running, cap), 2).
C1_SettlementAgrees ==
  (pc = "settle" \/ Settled) =>
    Round2(Min(gs.wm.base_game_wins + gs.wm.free_game_wins, WinCap))
      = Round2(Min(gs.wm.running_bet_win, WinCap))

\* a settled scatter round with a base-game win and a free-game win that an
\* end-of-tumble board multiplier has raised
C1_Witness ==
  /\ pc = "check"
  /\ variant = "scatter"
  /\ gs.wm.base_game_wins > 0
  /\ gs.wm.free_game_wins > 0
  /\ CountType(gs.book.events, "boardMultiplierInfo") > 0

\* C2: once the running round win has reached the win cap, no later step of
\* the round (tumble iteration, free-spin iteration) increases it, in every
\* variant.
C2_NoGainAfterCap ==
  [][gs.wm.running_bet_win >= WinCap
       => gs'.wm.running_bet_win <= gs.wm.running_bet_win]_vars

\* C3: after every win-contributing step of a round (an evaluation pass, an
\* end-of-tumble multiplier, a prize payout), a running round win at or over
\* the cap means the cap flag is set and the attempt's book holds exactly
\* one cap-reached event.
C3_CapFlaggedAtOnce ==
  (pc \in {"loop", "fsloop", "settle"} /\ gs.wm.running_bet_win >= WinCap) =>
    (gs.wincap_triggered /\ CountType(gs.book.events, "winCap") = 1)

\* C4: in every Book of the library the base-game win plus the free-game win
\* equals the payout multiplier, to two decimals, capped rounds included.
C4_BookSumsToPayout ==
  \A k \in DOMAIN gs.library :
    Cents(gs.library[k].baseGameWins + gs.library[k].freeGameWins)
      = gs.library[k].payoutMultiplier

\* C5: the Book of simulation i depends on i alone: whenever a simulation
\* has been run again, its Book (events and payout multiplier) is the one
\* its first run produced.
C5_BookDependsOnIndexAlone ==
  (pc = "idle" /\ gs.sim \in DOMAIN first_book) =>
    /\ gs.library[gs.sim + 1].events = first_book[gs.sim].events
    /\ gs.library[gs.sim + 1].payoutMultiplier = first_book[gs.sim].payoutMultiplier

\* C6: when run_spin(i) has returned, the library holds the Book of
\* simulation i under key i+1, and that Book's events, its win totals and
\* the force records filed for it all come from the accepted attempt.
C6_OnlyAcceptedAttemptPersisted ==
  (pc = "idle" /\ rounds > 0) =>
    /\ gs.sim + 1 \in DOMAIN gs.library
    /\ gs.library[gs.sim + 1] = to_json(gs.book)
    /\ gs.library[gs.sim + 1].id = gs.sim + 1
    /\ \A k \in 1 .. Len(gs.book.events) : gs.book.events[k].att = attempt
    /\ filed \subseteq {attempt}
    /\ gs.temp_wins = <<>>
    /\ \A d \in DOMAIN gs.recorded_events :
         Elems(gs.recorded_events[d].bookIds) \subseteq DOMAIN gs.library

\* a round accepted on its second attempt whose Book holds events and whose
\* accepted attempt filed force records
C6_Witness ==
  /\ pc = "idle"
  /\ rounds > 0
  /\ attempt = 2
  /\ filed = {2}
  /\ Len(gs.book.events) > 2
  /\ gs.book.payout_multiplier > 0

\* C7: every accepted round meets the three acceptance conditions: the
\* final win equals the criteria's target win when there is one, free spins
\* were triggered when the criteria forces a free game, and the round win is
\* non-zero unless the criteria is "0".
C7_AcceptedMeetsCriteria ==
  pc = "imprint" =>
    /\ has_win_criteria(gs.criteria) => gs.final_win = get_win_criteria(gs.criteria)
    /\ force_free_game(gs.criteria) => gs.triggered_free_game
    /\ gs.criteria # "0" => gs.wm.running_bet_win > 0

\* C9: a tumble is performed only after an evaluation with total_win > 0 and
\* with the cap not reached; a tumble is followed by one re-evaluation; and
\* a spin of a tumbling game leaves its tumble loop only when the last
\* evaluation's total_win is 0 or the cap flag is set.
C9_TumbleLoop ==
  [][/\ (pc = "loop" /\ pc' = "eval") =>
          (gs.win_data.totalWin > 0 /\ ~gs.wincap_triggered
             /\ gs.wm.running_bet_win < WinCap)
     /\ pc = "eval" => pc' = "loop"
     /\ (pc = "loop" /\ pc' # "eval" /\ variant \in TumbleVariants) =>
          (gs.win_data.totalWin = 0 \/ gs.wincap_triggered)]_vars

\* a spin that tumbled, won again and left the loop because the cap was hit
C9_Witness ==
  /\ pc \in {"fsloop", "settle"}
  /\ tumbles > 0
  /\ gs.win_data.totalWin > 0
  /\ gs.wincap_triggered

\* C8: after a tumble every reel has its configured row count, whatever
\* cells carried the explode flag and with padding on or off, and the length
\* check of tumble_board never fires.
C8_ReelLengthKept ==
  /\ tb.pc # "error"
  /\ tb.pc = "tumbled" =>
       \A reel \in Reels : Len(tb.board[reel]) = num_rows[reel]

\* a second tumble, with padding, in which one reel exploded whole and
\* another reel lost nothing
C8_Witness ==
  /\ tb.pc = "tumbled"
  /\ tb.tumbles = 2
  /\ tb.include_padding
  /\ \E full, none \in Reels :
       /\ Len(tb.new_symbols_from_tumble[full]) = num_rows[full]
       /\ Len(tb.new_symbols_from_tumble[none]) = 0

\* the cells of a board that are of the forced type: by special type when
\* the criteria names one, else by symbol name
CellsOfType(b) ==
  {c \in Cells :
     IF b.force_criteria \in DOMAIN special_symbols
     THEN b.board[c[1]][c[2]].name \in special_symbols[b.force_criteria]
     ELSE b.board[c[1]][c[2]].name = b.force_criteria}

C11_IndexIsPosition ==
  bk.pc = "book" =>
    \A i \in 1..Len(bk.events) : bk.events[i].index = i - 1

\* an event was dropped by the filter and a later one was stored behind an
\* earlier stored one
C11_Witness ==
  /\ bk.pc = "book"
  /\ Len(bk.events) = 2
  /\ bk.config.has_filter
  /\ bk.dropped
  /\ bk.last.stored
  /\ bk.events[2].index = 1

\* C12: under every filter configuration and with any payload, a win event
\* and a reveal event handed to the Book are appended to its event list.
C12_WinAndRevealKept ==
  (bk.pc = "book" /\ bk.last.type \in {EventConstants.WIN, EventConstants.REVEAL}) =>
    /\ bk.last.stored
    /\ bk.events[Len(bk.events)].type = bk.last.type
    /\ bk.events[Len(bk.events)].amount = bk.last.amount

\* a zero-amount win event stored by the most restrictive filter
C12_Witness ==
  /\ bk.pc = "book"
  /\ bk.config.has_filter
  /\ bk.config.skip_derived_wins
  /\ bk.config.skip_progress_updates
  /\ bk.config.skip_implicit_events
  /\ bk.config.verbose_event_level = "minimal"
  /\ bk.last = [type |-> EventConstants.WIN, amount |-> <<0>>, stored |-> TRUE]
  /\ \E i \in 1..Len(bk.events) : bk.events[i].type = EventConstants.REVEAL

\* C13: under every filter configuration, also minimal verbosity with both
\* skip flags set, a tumble event (EventConstants.TUMBLE), a free-spin trigger
\* event and a symbol-upgrade event handed to the Book are appended.
C13_TumbleTriggerUpgradeKept ==
  (/\ bk.pc = "book"
   /\ bk.last.type \in {EventConstants.TUMBLE, EventConstants.TRIGGER_FREE_SPINS,
                        EventConstants.UPGRADE}) =>
    bk.last.stored

\* the base board of an attempt has been drawn and nothing evaluated yet
AttemptStarted == pc = "eval" /\ gs.game_type = BaseGameType /\ tumbles = 0

\* the state reset_book is responsible for
BaseStateInitial ==
  /\ gs.wm.spin_win = 0
  /\ gs.wm.running_bet_win = 0
  /\ gs.wm.base_game_wins = 0
  /\ gs.wm.free_game_wins = 0
  /\ gs.total_free_spins = 0
  /\ gs.free_spin_count = 0
  /\ gs.global_multiplier = 1
  /\ gs.final_win = 0
  /\ ~gs.wincap_triggered
  /\ ~gs.triggered_free_game
  /\ gs.temp_wins = <<>>

\* C14: when an attempt starts (after the reset that precedes the base draw)
\* the win counters, free-spin counters, global multiplier, cap and trigger
\* flags and the game-specific state (grid position multipliers, sticky
\* symbols) all hold their initial values.
C14_AttemptStartsClean ==
  AttemptStarted =>
    /\ BaseStateInitial
    /\ gs.position_multipliers = NewGameState.position_multipliers
    /\ gs.sticky_symbols = NewGameState.sticky_symbols

\* the reset that starts an attempt
ResetStep == pc = "attempt" /\ pc' \in {"eval", "settle"}

\* C15: once the cap-triggered flag is true it stays true through every later
\* step of the attempt (tumbles, free spins, settlement); only the reset that
\* starts the next attempt clears it.
C15_CapFlagSticky ==
  [][(gs.wincap_triggered /\ ~ResetStep) => gs'.wincap_triggered]_vars

\* a settled round whose cap event is followed by events of later steps
C15_Witness ==
  /\ Settled
  /\ gs.wincap_triggered
  /\ gs.triggered_free_game
  /\ \E i \in 1..Len(gs.book.events) :
       /\ gs.book.events[i].type = "winCap"
       /\ \E j \in (i + 1)..Len(gs.book.events) :
            gs.book.events[j].type = "updateFreeSpins"

SimsOf(g) == g.start_sim..(g.end_sim - 1)

\* C17: the index ranges given to distinct (thread, repeat) pairs have length
\* B = sims_per_thread, are pairwise disjoint, and, once all T * R pairs have
\* been served, cover 0 .. T*B*R - 1 without a gap; no index is simulated
\* twice.
C17_RangesPartition ==
  calc.pc \in {"sims", "done"} =>
    /\ \A g \in calc.given : g.end_sim - g.start_sim = calc.sims_per_thread
    /\ \A g, h \in calc.given :
         (g.thread_index # h.thread_index \/ g.repeat_index # h.repeat_index)
           => SimsOf(g) \cap SimsOf(h) = {}
    /\ ~calc.twice
    /\ calc.pc = "done" =>
         /\ UNION {SimsOf(g) : g \in calc.given} =
              0..(calc.threads * calc.sims_per_thread * calc.num_repeats - 1)
         /\ calc.ran = UNION {SimsOf(g) : g \in calc.given}
         /\ Cardinality(calc.given) = calc.threads * calc.num_repeats

\* two threads have each walked two batches of two simulations
C17_Witness ==
  /\ calc.pc = "done"
  /\ calc.threads = 2
  /\ calc.num_repeats = 2
  /\ calc.sims_per_thread = 2
  /\ Cardinality(calc.ran) = 8

\* the cells of a reel that are not flagged, in board order
Survivors(reel_syms) == SelectSeq(reel_syms, LAMBDA sym : ~sym.explode)

\* C18: a tumble that removes k cells from a reel stopped at p on a strip of
\* length L leaves the stop position at (p - k) mod L; the surviving cells
\* keep their order below k new cells, which are, top to bottom, the strip
\* symbols at p-k .. p-1 (mod L); with padding the new cell nearest the
\* survivors is the saved top-padding symbol and the new top padding is the
\* strip symbol at p-k-1.
C18_TumbleRefill ==
  [][(tb.pc = "marked" /\ tb'.pc # "marked") =>
       /\ tb'.pc = "tumbled"
       /\ \A reel \in Reels :
            LET k == Len(tb.board[reel]) - Len(Survivors(tb.board[reel]))
                p == tb.reel_positions[reel]
                L == Len(reelstrip[reel])
                after == tb'.board[reel]
            IN  /\ tb'.reel_positions[reel] = PyMod(p - k, L)
                /\ Len(after) = k + Len(Survivors(tb.board[reel]))
                /\ SubSeq(after, k + 1, Len(after)) = Survivors(tb.board[reel])
                /\ \A j \in 1..k :
                     after[j].name = reelstrip[reel][PyMod(p - k + j - 1, L) + 1]
                /\ (tb.include_padding /\ k > 0) =>
                     /\ after[k] = tb.top_symbols[reel]
                     /\ tb'.top_symbols[reel].name =
                          reelstrip[reel][PyMod(p - k - 1, L) + 1]
  ]_vars

\* a second tumble with padding has refilled two cells of a reel whose
\* window wraps round the start of the strip
C18_Witness ==
  /\ tb.pc = "tumbled"
  /\ tb.include_padding
  /\ tb.tumbles = 2
  /\ \E reel \in Reels :
       /\ Len(tb.new_symbols_from_tumble[reel]) = 2
       /\ tb.board[reel][1].name # tb.board[reel][2].name
       /\ tb.reel_positions[reel] + num_rows[reel] > Len(reelstrip[reel])

\* C19: the Ways evaluator's totalWin is the sum of the win amounts of its
\* win records, and each record's win is paytable[(kind, symbol)] * ways
\* times the global multiplier, for every global multiplier.
C19_WaysTotalIsSumOfWins ==
  calc.pc = "ways" =>
    LET wins == calc.win_data.wins
    IN  /\ calc.win_data.totalWin =
             SumOver([i \in DOMAIN wins |-> wins[i].win], DOMAIN wins)
        /\ \A i \in DOMAIN wins :
             wins[i].win = paytable[<<wins[i].kind, wins[i].symbol>>]
                             * wins[i].meta.ways * calc.global_multiplier

\* the cells of a payline, left to right
LineCells(board, line) == [reel \in DOMAIN line |-> board[reel][line[reel]]]

\* the longest prefix of a line whose cells all satisfy Ok
RunLength(cells, Ok(_)) ==
  CHOOSE n \in 0..Len(cells) :
    /\ \A r \in 1..n : Ok(cells[r])
    /\ n < Len(cells) => ~Ok(cells[n + 1])

\* paytable payout, 0 for a missing entry
Payout(kind, name) ==
  IF <<kind, name>> \in DOMAIN paytable THEN paytable[<<kind, name>>] ELSE 0

\* C20: on every payline the Lines evaluator pays the larger of the payout of
\* the leading pure-wild run and the payout of the wild-substituted run of
\* the first non-wild symbol (a missing paytable entry counts 0); when both
\* are equal and positive the substituted, longer run is recorded; a line
\* with neither has no win record.  totalWin is the sum of the records.
C20_LinePaysLargerRun ==
  calc.pc = "lines" =>
    LET wins == calc.win_data.wins
    IN  /\ calc.win_data.totalWin =
             SumOver([i \in DOMAIN wins |-> wins[i].win], DOMAIN wins)
        /\ \A li \in DOMAIN paylines :
             LET cells == LineCells(calc.board, paylines[li])
                 wild_run == RunLength(cells, LAMBDA c : is_wild(c))
                 all_wild == wild_run = Len(cells)
                 name == IF all_wild THEN "W" ELSE cells[wild_run + 1].name
                 sub_run == RunLength(cells, LAMBDA c : is_wild(c) \/ c.name = name)
                 wild_pay == Payout(wild_run, "W")
                 sub_pay == IF all_wild THEN 0 ELSE Payout(sub_run, name)
                 recs == {i \in DOMAIN wins : wins[i].meta.lineIndex = li}
             IN  IF wild_pay = 0 /\ sub_pay = 0
                 THEN recs = {}
                 ELSE /\ Cardinality(recs) = 1
                      /\ \A i \in recs :
                           /\ wins[i].meta.winWithoutMult = Max(wild_pay, sub_pay)
                           /\ wins[i].win = Max(wild_pay, sub_pay) * wins[i].meta.multiplier
                           /\ wins[i].meta.multiplier >= 1
                           /\ sub_pay >= wild_pay =>
                                wins[i].kind = sub_run /\ wins[i].symbol = name
                           /\ wild_pay > sub_pay =>
                                wins[i].kind = wild_run /\ wins[i].symbol = "W"

\* one board with a line where both runs pay the same and the substituted
\* run was recorded, a line where the wild run pays more, and a line that
\* pays nothing
C20_Witness ==
  /\ calc.pc = "lines"
  /\ Len(calc.win_data.wins) = 2
  /\ \E i, j \in DOMAIN calc.win_data.wins :
       /\ calc.win_data.wins[i].symbol = "H1"
       /\ calc.win_data.wins[i].kind = 3
       /\ is_wild(calc.board[2][paylines[calc.win_data.wins[i].meta.lineIndex][2]])
       /\ calc.win_data.wins[i].meta.winWithoutMult = paytable[<<2, "W">>]
       /\ calc.win_data.wins[j].symbol = "W"
       /\ calc.win_data.wins[j].kind = 2

\* the names of the non-wild cells of a board
NonWildNames(board) ==
  {board[reel][row].name : reel \in DOMAIN board, row \in DOMAIN board[1]}
    \ special_symbols.wild

\* the cells of a board that satisfy Ok
CellsWhere(board, Ok(_)) ==
  {pos \in (DOMAIN board) \X (DOMAIN board[1]) : Ok(board[pos[1]][pos[2]])}

\* C21: in the Scatter evaluator the group of every non-wild symbol name s on
\* the board has size (cells named s) + (wild cells on the board), and it has
\* a win record, paying paytable[(size, s)], exactly when that entry exists.
C21_ScatterGroupSize ==
  calc.pc = "scatter" =>
    LET wins == calc.win_data.wins
        wild_cells == CellsWhere(calc.board, LAMBDA c : is_wild(c))
    IN  /\ \A i \in DOMAIN wins : wins[i].symbol \in NonWildNames(calc.board)
        /\ \A s \in NonWildNames(calc.board) :
             LET named == CellsWhere(calc.board, LAMBDA c : c.name = s)
                 size == Cardinality(named) + Cardinality(wild_cells)
                 recs == {i \in DOMAIN wins : wins[i].symbol = s}
             IN  IF <<size, s>> \in DOMAIN paytable
                 THEN /\ Cardinality(recs) = 1
                      /\ \A i \in recs :
                           /\ Len(wins[i].positions) = size
                           /\ {wins[i].positions[k] : k \in DOMAIN wins[i].positions}
                                = named \cup wild_cells
                           /\ wins[i].meta.winWithoutMult = paytable[<<size, s>>]
                 ELSE recs = {}

\* one cell of a symbol counted with the two wild cells of the board pays as
\* a group of three, while the other symbol's group of five has no entry
C21_Witness ==
  /\ calc.pc = "scatter"
  /\ Cardinality(CellsWhere(calc.board, LAMBDA c : is_wild(c))) = 2
  /\ Cardinality(NonWildNames(calc.board)) = 2
  /\ Len(calc.win_data.wins) = 1
  /\ Len(calc.win_data.wins[1].positions) = 3

\* ---------------------------------------------------------------------------
\* C22

AllCells(board) == (DOMAIN board) \X (DOMAIN board[1])

\* two cells share an edge (no diagonals)
Adjacent(a, b) ==
  \/ a[1] = b[1] /\ (a[2] - b[2] = 1 \/ b[2] - a[2] = 1)
  \/ a[2] = b[2] /\ (a[1] - b[1] = 1 \/ b[1] - a[1] = 1)

\* the cells of S reachable from the cells of R by steps between adjacent cells
RECURSIVE ReachWithin(_, _)
ReachWithin(S, R) ==
  LET more == {c \in S \ R : \E d \in R : Adjacent(c, d)}
  IN  IF more = {} THEN R ELSE ReachWithin(S, R \cup more)

\* the clusters found, as pairs of a symbol and an index into its list
FoundClusters == {p \in (DOMAIN calc.clusters) \X (1..6) : p[2] <= Len(calc.clusters[p[1]])}

ClusterSet(p) == {calc.clusters[p[1]][p[2]][i] : i \in 1..Len(calc.clusters[p[1]][p[2]])}

\* C22: every cluster the Cluster evaluator returns is a maximal 4-connected
\* set of cells that each carry the cluster's symbol or are wild, and holds at
\* least one non-wild cell; every non-wild cell lies in exactly one cluster,
\* and a wild cell lies in every cluster it touches.
C22_ClustersAreMaximalComponents ==
  calc.pc = "cluster" =>
    LET board == calc.board
        fits(c, sym) == is_wild(board[c[1]][c[2]]) \/ board[c[1]][c[2]].name = sym
    IN  /\ \A p \in FoundClusters :
             LET S == ClusterSet(p)
             IN  /\ Cardinality(S) = Len(calc.clusters[p[1]][p[2]])
                 /\ S \subseteq AllCells(board)
                 /\ \A c \in S : fits(c, p[1])
                 /\ \E c \in S : ~ is_wild(board[c[1]][c[2]])
                 /\ \A c \in S : ReachWithin(S, {c}) = S
                 /\ \A c \in AllCells(board) \ S :
                      fits(c, p[1]) => ~ \E d \in S : Adjacent(c, d)
        /\ \A c \in AllCells(board) :
             IF is_wild(board[c[1]][c[2]])
             THEN \A p \in FoundClusters :
                    (\E d \in ClusterSet(p) : Adjacent(c, d)) => c \in ClusterSet(p)
             ELSE /\ Cardinality({p \in FoundClusters : c \in ClusterSet(p)}) = 1
                  /\ \A p \in FoundClusters :
                       c \in ClusterSet(p) => p[1] = board[c[1]][c[2]].name

\* a wild cell shared by clusters of two symbols, on a board where one symbol
\* forms two separate clusters
C22_Witness ==
  /\ calc.pc = "cluster"
  /\ \E c \in AllCells(calc.board) :
       /\ is_wild(calc.board[c[1]][c[2]])
       /\ \E p, q \in FoundClusters :
            p[1] # q[1] /\ c \in ClusterSet(p) /\ c \in ClusterSet(q)
  /\ \E sym \in DOMAIN calc.clusters : Len(calc.clusters[sym]) = 2

\* ---------------------------------------------------------------------------
\* C23

\* the weight of a value in the distribution drawn from
WeightOf(value) ==
  LET i == CHOOSE i \in DOMAIN calc.distribution : calc.distribution[i].value = value
  IN  calc.distribution[i].weight

\* the cumulative weight up to and including the i-th value
CumulativeTo(i) == SumWeights(calc.distribution, i)

\* C23: for a distribution of non-negative weights with positive total and a
\* roll in [0, total), the draw returns the first value in iteration order
\* whose cumulative weight strictly exceeds the roll, and so never a value of
\* weight 0.
C23_DrawFirstStrictlyAbove ==
  (/\ calc.pc = "drawn"
   /\ totalWeight(calc.distribution) > 0
   /\ calc.roll < RollScale * totalWeight(calc.distribution)) =>
    /\ \E i \in DOMAIN calc.distribution :
         /\ calc.outcome = calc.distribution[i].value
         /\ RollScale * CumulativeTo(i) > calc.roll
         /\ \A j \in 1..(i - 1) : RollScale * CumulativeTo(j) <= calc.roll
    /\ WeightOf(calc.outcome) > 0

\* ---------------------------------------------------------------------------
\* C24

\* C24: the anticipation array of every generated board, drawn unconstrained
\* or forced, is non-decreasing from the leftmost reel to the rightmost.
C24_AnticipationNonDecreasing ==
  calc.pc \in {"created", "forced"} =>
    \A r \in 1 .. (Len(calc.anticipation) - 1) :
      calc.anticipation[r] <= calc.anticipation[r + 1]

\* a forced board whose second scatter, on the second reel, reaches the
\* trigger: the last two reels anticipate
C24_Witness ==
  /\ calc.pc = "forced"
  /\ calc.anticipation_trigger = 2
  /\ calc.anticipation = <<0, 0, 1, 2>>

\* ---------------------------------------------------------------------------
\* C25

SuperCellCount == Cardinality((DOMAIN SuperRows) \X (1 .. 2))

\* what one step of the super spin may do to the counter and the stickys
SuperStep ==
  /\ calc'.pc = "paid" => calc.free_spin_count = super_spin_respins
  /\ (calc.pc = "loop" /\ calc.free_spin_count = super_spin_respins) => calc'.pc = "paid"
  /\ (calc.pc = "loop" /\ calc'.pc = "loop") =>
       /\ Len(calc'.sticky_symbols) >= Len(calc.sticky_symbols)
       /\ SubSeq(calc'.sticky_symbols, 1, Len(calc.sticky_symbols)) = calc.sticky_symbols
       /\ IF Len(calc'.sticky_symbols) > Len(calc.sticky_symbols)
          THEN calc'.free_spin_count = 0
          ELSE calc'.free_spin_count = calc.free_spin_count + 1
       /\ \A i \in 1 .. Len(calc'.sticky_symbols) :
            LET sym == calc'.sticky_symbols[i]
            IN  calc'.board[sym.reel][sym.row] = [name |-> "P", prize |-> sym.prize]

\* C25: the respin loop of the super spin ends exactly when the counter
\* reaches 3 with no new sticky prize since its last reset; a respin that
\* adds a sticky position resets the counter to 0; the sticky positions only
\* grow and keep their prize value; the loop makes at most
\* 3 * (number of cells + 1) respins.
C25_RespinLoopBounded ==
  /\ [](calc.pc \in {"loop", "paid"} =>
          /\ calc.free_spin_count = calc.quiet
          /\ calc.free_spin_count <= super_spin_respins
          /\ calc.respins <= super_spin_respins * (SuperCellCount + 1)
          /\ Len(calc.sticky_symbols) <= SuperCellCount
          /\ \A i, j \in 1 .. Len(calc.sticky_symbols) :
               (calc.sticky_symbols[i].reel = calc.sticky_symbols[j].reel
                /\ calc.sticky_symbols[i].row = calc.sticky_symbols[j].row) => i = j)
  /\ [](calc.pc = "paid" => calc.quiet = super_spin_respins)
  /\ [][SuperStep]_vars

\* the longest super spin: every cell turned sticky on the third respin after
\* a reset, then three respins without a new prize
C25_Witness ==
  /\ calc.pc = "paid"
  /\ calc.respins = super_spin_respins * (SuperCellCount + 1)
  /\ Len(calc.sticky_symbols) = SuperCellCount

\* ---------------------------------------------------------------------------
\* C26

\* C26: whenever the win manager's totals are consistent (the running round
\* win equals base-game win plus free-game win), the check of settlement on
\* the separately capped and rounded phase values passes:
\* min(round(base + free, 2), cap) = final, with base, free and final each
\* round(min(., cap), 2), whatever the amounts, whole cents or not.
C26_RoundedPhasesAgree ==
  (/\ Settled
   /\ gs.wm.running_bet_win = gs.wm.base_game_wins + gs.wm.free_game_wins) =>
    Min(Round2(Round2(Min(gs.wm.base_game_wins, WinCap))
               + Round2(Min(gs.wm.free_game_wins, WinCap))), WinCap)
      = Round2(Min(gs.wm.running_bet_win, WinCap))

\* ---------------------------------------------------------------------------
\* C27

\* the games whose run_spin draws a base board and plays it; the template
\* game's run_spin is the empty skeleton and settles without a spin
PlaysBaseSpin == variant # "template"

InFreeGame == pc \in {"fsloop", "eval", "loop"} /\ gs.game_type = FreeGameType

\* the free spins awarded so far: the trigger and retrigger events carry the
\* total after each award, so the awards are the steps between them
AwardedFreeSpins(events) ==
  LET awards == SelectSeq(events, LAMBDA e : e.type \in {"triggerFreeSpins",
                                                          "retriggerFreeSpins"})
  IN  IF Len(awards) = 0 THEN 0 ELSE awards[Len(awards)].amount

\* one step of a free game: the total does not go down, and the loop is left
\* with the counter at the total unless the win cap cut it short
FreeGameStep ==
  /\ (InFreeGame /\ pc' \in {"fsloop", "eval", "loop"}) =>
       /\ gs'.total_free_spins >= gs.total_free_spins
       /\ gs'.free_spin_count >= gs.free_spin_count
  /\ (InFreeGame /\ pc = "fsloop" /\ pc' = "settle") =>
       \/ /\ gs.free_spin_count = gs.total_free_spins
          /\ CountType(gs.book.events, "updateFreeSpins") = gs.total_free_spins
          /\ AwardedFreeSpins(gs.book.events) = gs.total_free_spins
       \/ gs.wincap_triggered

\* C28: a free game plays exactly as many free spins as were awarded (the
\* initial award plus every retrigger), unless the win cap cuts it short: the
\* counter never exceeds the total, the total never decreases, and the loop
\* exits with counter = total.
C28_FreeSpinsPlayedAsAwarded ==
  /\ [](InFreeGame => gs.free_spin_count <= gs.total_free_spins)
  /\ [][FreeGameStep]_vars

\* a free game that was retriggered and played both awards to the end
C28_Witness ==
  /\ pc = "settle"
  /\ gs.game_type = FreeGameType
  /\ CountType(gs.book.events, "retriggerFreeSpins") = 1
  /\ CountType(gs.book.events, "updateFreeSpins") = 2
  /\ gs.free_spin_count = 2
  /\ gs.total_free_spins = 2

\* one evaluation pass: the step that leaves "eval", with the number of
\* win events it appended to the Book
WinEventsAdded ==
  CountType(gs'.book.events, "win") - CountType(gs.book.events, "win")

EvaluationPass ==
  pc = "eval" =>
    WinEventsAdded = (IF gs'.win_data.totalWin > 0 THEN 1 ELSE 0)

\* C29: every evaluation pass with total_win > 0 appends exactly one win
\* event to the Book and a pass with total_win = 0 appends none, in every
\* variant, for the first evaluation of a spin and for the re-evaluations
\* after tumbles.
C29_OneWinEventPerPass ==
  [][EvaluationPass]_vars

\* the library's payout multipliers (stored in hundredths) added up, in the
\* unit of the win manager's totals (thousandths)
LibraryPayout ==
  10 * SumOver([k \in DOMAIN gs.library |-> gs.library[k].payoutMultiplier],
               DOMAIN gs.library)

\* run_sims hands every simulation index to run_spin once: every accepted
\* round so far has filed a Book of its own
EachSimRunOnce == Cardinality(DOMAIN gs.library) = rounds

\* C30: after any number of accepted rounds on a worker the win manager's
\* total_cumulative_wins equals the sum of the payout multipliers of the
\* Books in the worker's library: rejected attempts contribute nothing and
\* an accepted round contributes its settled payout once.
C30_CumulativeWinsMatchLibrary ==
  (pc = "idle" /\ EachSimRunOnce) =>
    gs.wm.total_cumulative_wins = LibraryPayout

====
